---- MODULE Spec2Model ----
(***************************************************************************)
(* Model of the MCP hook pipeline of unstract/backend/mcp_v2:              *)
(*   hooks/pre_processing.py   MCPPreProcessingHooks, RateLimiter,         *)
(*                             RequestTransformer, SecurityChecker         *)
(*   hooks/post_processing.py  MCPPostProcessingHooks, ResponseTransformer,*)
(*                             MetricsCollector, ErrorHandler              *)
(* The shared Django cache is a map from keys to (value, expiry); time is  *)
(* a discrete clock `now`.  A Python object is a function from its field   *)
(* names to their values; a field that is None is left out of the domain,  *)
(* and so is a missing dict key.  A str is a sequence of characters.       *)
(***************************************************************************)
EXTENDS Integers, Sequences, FiniteSets, TLC

VARIABLES
    now,        \* the wall clock (time.time()), in whole seconds
    cache,      \* django.core.cache.cache: key -> [val, exp]
    server,     \* the MCPServer object the hooks are handed
    db,         \* the columns of its row that asave() has written
    request,    \* the caller's MCPRequest object
    response,   \* the MCPResponse last handed back to the caller
    pc,         \* where the caller stands in a flow
    uuids,      \* the number of request ids generated so far
    resubmits,  \* the number of times the caller has resubmitted the request
    call,       \* the step just taken: the operation, its inputs and outcome
    rlOp,       \* the operation class whose check_limit calls are logged
    rlLog,      \* the times of the calls of class rlOp that returned True
    errLog,     \* the times of the errors recorded by the circuit breaker
    tally,      \* what the callers of the MetricsCollector have recorded so far
    registry,   \* MCPServerRegistry: its class attributes _providers, _initialized
    loads,      \* how often each provider loader has run, and the calls made
    modules,    \* what importing each provider module finds in this process
    provider,   \* a provider instance: its _connected flag and its token
    wire,       \* the remote calls the provider has sent, in order, and whether
                \* a connect has succeeded with no disconnect since
    input,      \* the value handed to the function under check
    procs       \* the concurrent workers: each one's position and local values

vars == <<now, cache, server, db, request, response, pc, uuids, resubmits, call,
         rlOp, rlLog, errLog, tally, registry, loads, modules, provider, wire,
         input, procs>>

flow == <<pc, uuids, resubmits>>

\* The state of the hooks, their backend and their caller.
hooksState == <<now, cache, server, db, request, response, flow, rlOp, rlLog,
               errLog>>

\* The state of the registry, the provider and the validator.
apart == <<registry, loads, modules, provider, wire, input, procs>>

\* The state a step of the hooks on one request leaves alone.
aside == <<tally, apart>>

-----------------------------------------------------------------------------
(* Bounds of the model *)

MaxTime == 5

\* settings.MCP_CONNECT_RATE_LIMIT / _WINDOW, MCP_REQUEST_RATE_LIMIT / _WINDOW:
\* the configured maximum N and window W of each operation class.
ConnectRateLimit == 2
ConnectRateWindow == 2
RequestRateLimit == 3
RequestRateWindow == 3

\* settings.MCP_ERROR_THRESHOLD and MCP_ERROR_WINDOW of the circuit breaker.
ErrorThreshold == 3
ErrorWindow == 3

\* The number of errors one run records against the circuit breaker.
MaxErrors == 4

\* The number of successful requests one run of the post hooks records.
MaxRequests == 2

\* The number of requests one run of the pipeline has accepted by pre_request.
MaxSubmits == 1

\* The number of attempts of one request the caller's retry loop is followed
\* for.
MaxAttempts == 5

\* The number of pre_request calls one request is followed through.
MaxPreRequests == 4

\* The number of record_connection and record_request calls one run makes.
MaxRecords == 3

\* The number of initialize, get_provider and list_providers calls one run
\* makes.
MaxCalls == 3

\* The number of remote calls one run of a provider sends.
MaxSent == 6

\* The number of concurrent workers, and of calls the rate limiter allows them.
NumWorkers == 2
MaxAdmits == 4

-----------------------------------------------------------------------------
(* Python values *)

\* d[key] = value
DictSet(d, key, value) ==
    [k \in (DOMAIN d) \cup {key} |-> IF k = key THEN value ELSE d[k]]

\* d.get(key, default)
DictGet(d, key, default) == IF key \in DOMAIN d THEN d[key] ELSE default

EmptyDict == <<>>

\* obj.field is not None
Has(obj, field) == field \in DOMAIN obj

\* bool(obj.field) of an Optional[dict] or Optional[str] field: neither None
\* nor empty.
Truthy(obj, field) == Has(obj, field) /\ DOMAIN obj[field] # {}

RECURSIVE Pow(_, _)
Pow(base, e) == IF e = 0 THEN 1 ELSE base * Pow(base, e - 1)

(* str *)

LowerOf ==
    [A |-> "a", B |-> "b", C |-> "c", D |-> "d", E |-> "e", F |-> "f", G |-> "g",
     H |-> "h", I |-> "i", J |-> "j", K |-> "k", L |-> "l", M |-> "m", N |-> "n",
     O |-> "o", P |-> "p", Q |-> "q", R |-> "r", S |-> "s", T |-> "t", U |-> "u",
     V |-> "v", W |-> "w", X |-> "x", Y |-> "y", Z |-> "z"]

\* str.lower()
Lower(str) ==
    [i \in 1..Len(str) |-> IF str[i] \in DOMAIN LowerOf THEN LowerOf[str[i]] ELSE str[i]]

\* pattern in str
Contains(str, pattern) ==
    \E i \in 1..(Len(str) - Len(pattern) + 1) :
        SubSeq(str, i, i + Len(pattern) - 1) = pattern

-----------------------------------------------------------------------------
(* django.core.cache: get(key, default) and set(key, value, timeout) *)

\* An entry whose expiry time has been reached is gone.
CacheLive(c, t, key) == key \in DOMAIN c /\ c[key].exp > t

CacheGet(c, t, key, default) == IF CacheLive(c, t, key) THEN c[key].val ELSE default

CacheSet(c, t, key, value, timeout) ==
    [k \in (DOMAIN c) \cup {key} |->
        IF k = key THEN [val |-> value, exp |-> t + timeout] ELSE c[k]]

-----------------------------------------------------------------------------
(* MCPServer *)

Status == [ACTIVE |-> "ACTIVE", INACTIVE |-> "INACTIVE", ERROR |-> "ERROR",
           PENDING |-> "PENDING"]

Statuses == {Status.ACTIVE, Status.INACTIVE, Status.ERROR, Status.PENDING}

ServerTypes == {"claude", "github", "filesystem"}

\* A row as models.py creates it: status PENDING, metadata {}, is_active True.
NewServer(type) ==
    [id |-> 1, server_type |-> type, status |-> Status.PENDING,
     metadata |-> EmptyDict, is_active |-> TRUE]

\* server.asave(update_fields=...): the named columns of the row are written.
asave(row, srv, update_fields) ==
    [f \in DOMAIN row |-> IF f \in update_fields THEN srv[f] ELSE row[f]]

RowOf(srv) == [status |-> srv.status, metadata |-> srv.metadata]

\* datetime.now().isoformat()
IsoNow(t) == t

-----------------------------------------------------------------------------
(* RateLimiter *)

limits ==
    [connect |-> [requests |-> ConnectRateLimit, window |-> ConnectRateWindow],
     request |-> [requests |-> RequestRateLimit, window |-> RequestRateWindow]]

RateKey(sid, operation) == <<"mcp_rate_limit", sid, operation>>

\* The comparison of check_limit: the counter has reached the maximum.
LimitReached_Off(current_count, max_requests) == current_count > max_requests

LimitReached(current_count, max_requests) == current_count >= max_requests

\* check_limit() writing the counter back, with a new timeout, when it denies.
check_limit_RearmsOnDenial(c, t, sid, operation) ==
    IF operation \notin DOMAIN limits
    THEN [ret |-> TRUE, cache |-> c]
    ELSE LET limit_config == limits[operation]
             cache_key == RateKey(sid, operation)
             current_count == CacheGet(c, t, cache_key, 0)
         IN  IF LimitReached(current_count, limit_config.requests)
             THEN [ret |-> FALSE,
                   cache |-> CacheSet(c, t, cache_key, current_count,
                                      limit_config.window)]
             ELSE [ret |-> TRUE,
                   cache |-> CacheSet(c, t, cache_key, current_count + 1,
                                      limit_config.window)]

\* check_limit() counting in a window that starts with its first call: an
\* allowed call leaves the expiry time of a live counter as it is.
check_limit_KeepsExpiry(c, t, sid, operation) ==
    IF operation \notin DOMAIN limits
    THEN [ret |-> TRUE, cache |-> c]
    ELSE LET limit_config == limits[operation]
             cache_key == RateKey(sid, operation)
             current_count == CacheGet(c, t, cache_key, 0)
             left == IF CacheLive(c, t, cache_key) THEN c[cache_key].exp - t
                     ELSE limit_config.window
         IN  IF LimitReached(current_count, limit_config.requests)
             THEN [ret |-> FALSE, cache |-> c]
             ELSE [ret |-> TRUE,
                   cache |-> CacheSet(c, t, cache_key, current_count + 1, left)]

\* check_limit(server, operation) as [ret, cache]: the value returned and the
\* cache it leaves.
check_limit(c, t, sid, operation) ==
    IF operation \notin DOMAIN limits
    THEN [ret |-> TRUE, cache |-> c]
    ELSE LET limit_config == limits[operation]
             cache_key == RateKey(sid, operation)
             current_count == CacheGet(c, t, cache_key, 0)
         IN  IF LimitReached(current_count, limit_config.requests)
             THEN [ret |-> FALSE, cache |-> c]
             ELSE [ret |-> TRUE,
                   cache |-> CacheSet(c, t, cache_key, current_count + 1,
                                      limit_config.window)]

Operations == {"connect", "request", "disconnect"}

-----------------------------------------------------------------------------
(* MCPRequest parameters.  A parameter value is tagged by its Python type:  *)
(* [int |-> n], [str |-> s] or [dict |-> d].                                *)

RECURSIVE Concat(_)
\* "".join(parts)
Concat(parts) == IF parts = <<>> THEN <<>> ELSE Head(parts) \o Concat(Tail(parts))

Digit == <<"0","1","2","3","4","5","6","7","8","9">>

RECURSIVE IntStr(_)
\* str(n) of an int n >= 0
IntStr(n) == IF n < 10 THEN <<Digit[n + 1]>> ELSE IntStr(n \div 10) \o <<Digit[(n % 10) + 1]>>

\* repr(s) of a str: double quotes when s holds a ' and no ", single quotes
\* with each ' and \ escaped otherwise.
ReprStr(s) ==
    IF Contains(s, <<"'">>) /\ ~Contains(s, <<"\"">>)
    THEN <<"\"">> \o s \o <<"\"">>
    ELSE <<"'">> \o
         Concat([i \in 1..Len(s) |->
                   IF s[i] \in {"'", "\\"} THEN <<"\\", s[i]>> ELSE <<s[i]>>])
         \o <<"'">>

\* The keys of the parameter dicts of the model, in the order the dicts hold
\* them.
K_timeout == <<"t","i","m","e","o","u","t">>
K_per_page == <<"p","e","r","_","p","a","g","e">>
K_sort == <<"s","o","r","t">>
K_q == <<"q">>
K_api_key == <<"A","P","I","_","K","e","y">>
K_auth == <<"a","u","t","h">>
K_token == <<"t","o","k","e","n">>
K_user_context == <<"u","s","e","r","_","c","o","n","t","e","x","t">>
K_user_id == <<"u","s","e","r","_","i","d">>
K_session_id == <<"s","e","s","s","i","o","n","_","i","d">>

KeyOrder == <<K_timeout, K_per_page, K_sort, K_q, K_api_key, K_auth, K_token,
              K_user_context, K_user_id, K_session_id>>

\* The keys of d in dict order.
KeysOf(d) == SelectSeq(KeyOrder, LAMBDA k : k \in DOMAIN d)

RECURSIVE StrDict(_)
\* str(d) of a dict: {'key': repr(value), ...}
StrDict(d) ==
    LET keys == KeysOf(d)
        ReprValue(v) == IF "int" \in DOMAIN v THEN IntStr(v.int)
                        ELSE IF "str" \in DOMAIN v THEN ReprStr(v.str)
                        ELSE StrDict(v.dict)
        Item(i) == (IF i > 1 THEN <<",", " ">> ELSE <<>>) \o
                   ReprStr(keys[i]) \o <<":", " ">> \o ReprValue(d[keys[i]])
    IN  <<"{">> \o Concat([i \in 1..Len(keys) |-> Item(i)]) \o <<"}">>

\* bool(value)
ValueTruthy(v) == IF "int" \in DOMAIN v THEN v.int # 0
                  ELSE IF "str" \in DOMAIN v THEN v.str # <<>>
                  ELSE DOMAIN v.dict # {}

-----------------------------------------------------------------------------
(* SecurityChecker *)

\* settings.MCP_BLOCKED_METHODS as a deployment configures it.
blocked_methods == {"delete_file"}

sensitive_param_patterns ==
    { <<"p","a","s","s","w","o","r","d">>, <<"s","e","c","r","e","t">>, <<"t","o","k","e","n">>, <<"k","e","y">>, <<"c","r","e","d","e","n","t","i","a","l">> }

sql_patterns ==
    { <<"'",";"," ","D","R","O","P"," ","T","A","B","L","E">>, <<"'"," ","O","R"," ","'","1","'","=","'","1">>, <<"U","N","I","O","N"," ","S","E","L","E","C","T">>, <<"/","*","!">> }

\* _check_injection_attacks(params): the patterns found.
_check_injection_attacks(params) ==
    LET params_str == Lower(StrDict(params))
    IN  {pattern \in sql_patterns : Contains(params_str, Lower(pattern))}

RECURSIVE check_dict(_)
\* check_dict(d) of _check_sensitive_data: the (key, pattern) pairs it reports.
check_dict(d) ==
    UNION { {<<key, pattern>> : pattern \in
               {pt \in sensitive_param_patterns :
                   Contains(Lower(key), pt) /\ ValueTruthy(d[key])}}
            \cup (IF "dict" \in DOMAIN d[key] THEN check_dict(d[key].dict) ELSE {})
          : key \in DOMAIN d }

_check_sensitive_data(params) == check_dict(params)

\* check_request(request): the issues found, as a set.
check_request(req) ==
    (IF req.method \in blocked_methods THEN {<<"blocked", req.method>>} ELSE {})
    \cup {<<"injection", pattern>> : pattern \in _check_injection_attacks(req.params)}
    \cup {<<"sensitive", issue>> : issue \in _check_sensitive_data(req.params)}

-----------------------------------------------------------------------------
(* RequestTransformer *)

\* _transform_claude_request(request, context)
_transform_claude_request(req, context) ==
    IF DOMAIN context # {} /\ "user_id" \in DOMAIN context
    THEN LET user_context ==
               IF "session_id" \in DOMAIN context
               THEN [k \in {K_user_id, K_session_id} |->
                       IF k = K_user_id THEN [str |-> context["user_id"]]
                       ELSE [str |-> context["session_id"]]]
               ELSE [k \in {K_user_id} |-> [str |-> context["user_id"]]]
         IN  [req EXCEPT !.params = DictSet(@, K_user_context, [dict |-> user_context])]
    ELSE req

\* _transform_github_request(request, context)
_transform_github_request(req, context) ==
    IF req.method = "search_code"
    THEN LET p1 == DictSet(req.params, K_per_page,
                           DictGet(req.params, K_per_page, [int |-> 30]))
             p2 == DictSet(p1, K_sort,
                           DictGet(p1, K_sort, [str |-> <<"b","e","s","t","-","m","a","t","c","h">>]))
         IN  [req EXCEPT !.params = p2]
    ELSE req

\* _apply_default_transformations() setting the timeout whether or not the
\* request carries one.
RequestDefaultTransformations_Always(req, context) ==
    [req EXCEPT !.params = DictSet(@, K_timeout, [int |-> 30])]

\* RequestTransformer._apply_default_transformations(request, context)
RequestDefaultTransformations(req, context) ==
    IF K_timeout \notin DOMAIN req.params
    THEN [req EXCEPT !.params = DictSet(@, K_timeout, [int |-> 30])]
    ELSE req

\* RequestTransformer.transform(server, request, context); a context of None
\* is the empty dict here, neither is read.
RequestTransform(srv, req, context) ==
    IF srv.server_type = "claude" THEN _transform_claude_request(req, context)
    ELSE IF srv.server_type = "github" THEN _transform_github_request(req, context)
    ELSE RequestDefaultTransformations(req, context)

-----------------------------------------------------------------------------
(* MCPPreProcessingHooks *)

\* pre_connect with the rate-limit check made before the activity check.
pre_connect_LimitFirst(c, t, srv, row) ==
    LET rl == check_limit(c, t, srv.id, "connect")
    IN  IF ~rl.ret
        THEN [raised |-> "ValueError: Connection rate limit exceeded",
              cache |-> rl.cache, server |-> srv, db |-> row]
        ELSE IF ~srv.is_active
        THEN [raised |-> "ValueError: not active", cache |-> rl.cache,
              server |-> srv, db |-> row]
        ELSE LET srv1 == [srv EXCEPT !.metadata =
                             DictSet(@, "last_connection_attempt", IsoNow(t))]
             IN  [raised |-> "none", cache |-> rl.cache, server |-> srv1,
                  db |-> asave(row, srv1, {"metadata"})]

\* pre_connect(server, context) as [raised, cache, server, db]; raised is
\* "none" or the ValueError raised.
pre_connect(c, t, srv, row) ==
    IF ~srv.is_active
    THEN [raised |-> "ValueError: not active", cache |-> c, server |-> srv, db |-> row]
    ELSE LET rl == check_limit(c, t, srv.id, "connect")
         IN  IF ~rl.ret
             THEN [raised |-> "ValueError: Connection rate limit exceeded",
                   cache |-> rl.cache, server |-> srv, db |-> row]
             ELSE LET srv1 == [srv EXCEPT !.metadata =
                                  DictSet(@, "last_connection_attempt", IsoNow(t))]
                  IN  [raised |-> "none", cache |-> rl.cache, server |-> srv1,
                       db |-> asave(row, srv1, {"metadata"})]

\* The request tracking putting the two tags into a context of its own.
TrackRequest_FreshContext(req, t, request_id) ==
    LET ctx1 == DictSet(EmptyDict, "request_id", request_id)
        ctx2 == DictSet(ctx1, "timestamp", t)
    IN  DictSet(req, "context", ctx2)

\* The request tracking of pre_request (lines 62-66): the context tagged with
\* the request id and the start time.
TrackRequest(req, t, request_id) ==
    LET ctx0 == IF Truthy(req, "context") THEN req.context ELSE EmptyDict
        ctx1 == DictSet(ctx0, "request_id", request_id)
        ctx2 == DictSet(ctx1, "timestamp", t)
    IN  DictSet(req, "context", ctx2)

\* pre_request with the transform and the tracking done before the checks.
pre_request_TransformFirst(c, t, srv, req, context, request_id) ==
    LET tracked == TrackRequest(RequestTransform(srv, req, context), t, request_id)
        rl == check_limit(c, t, srv.id, "request")
    IN  IF ~rl.ret
        THEN [raised |-> "ValueError: Request rate limit exceeded",
              cache |-> rl.cache, request |-> tracked]
        ELSE IF check_request(req) # {}
        THEN [raised |-> "ValueError: Security check failed",
              cache |-> rl.cache, request |-> tracked]
        ELSE [raised |-> "none", cache |-> rl.cache, request |-> tracked]

\* pre_request refusing a request for a backend whose status is ERROR.
pre_request_ChecksStatus(c, t, srv, req, context, request_id) ==
    IF srv.status = Status.ERROR
    THEN [raised |-> "ValueError: Server is in error", cache |-> c, request |-> req]
    ELSE LET rl == check_limit(c, t, srv.id, "request")
         IN  IF ~rl.ret
             THEN [raised |-> "ValueError: Request rate limit exceeded",
                   cache |-> rl.cache, request |-> req]
             ELSE IF check_request(req) # {}
             THEN [raised |-> "ValueError: Security check failed",
                   cache |-> rl.cache, request |-> req]
             ELSE LET transformed_request == RequestTransform(srv, req, context)
                  IN  [raised |-> "none", cache |-> rl.cache,
                       request |-> TrackRequest(transformed_request, t, request_id)]

\* pre_request with the security check made before the rate-limit check.
pre_request_SecurityFirst(c, t, srv, req, context, request_id) ==
    IF check_request(req) # {}
    THEN [raised |-> "ValueError: Security check failed",
          cache |-> c, request |-> req]
    ELSE LET rl == check_limit(c, t, srv.id, "request")
         IN  IF ~rl.ret
             THEN [raised |-> "ValueError: Request rate limit exceeded",
                   cache |-> rl.cache, request |-> req]
             ELSE LET transformed_request == RequestTransform(srv, req, context)
                  IN  [raised |-> "none", cache |-> rl.cache,
                       request |-> TrackRequest(transformed_request, t, request_id)]

\* pre_request(server, request, context) as [raised, cache, request];
\* request_id is the uuid _generate_request_id returns.
pre_request(c, t, srv, req, context, request_id) ==
    LET rl == check_limit(c, t, srv.id, "request")
    IN  IF ~rl.ret
        THEN [raised |-> "ValueError: Request rate limit exceeded",
              cache |-> rl.cache, request |-> req]
        ELSE IF check_request(req) # {}
        THEN [raised |-> "ValueError: Security check failed",
              cache |-> rl.cache, request |-> req]
        ELSE LET transformed_request == RequestTransform(srv, req, context)
             IN  [raised |-> "none", cache |-> rl.cache,
                  request |-> TrackRequest(transformed_request, t, request_id)]

-----------------------------------------------------------------------------
(* ErrorHandler *)

retry_config == [max_retries |-> 3, backoff_factor |-> 2]

retryable_patterns ==
    { <<"t","i","m","e","o","u","t">>,
      <<"c","o","n","n","e","c","t","i","o","n"," ","r","e","s","e","t">>,
      <<"t","e","m","p","o","r","a","r","y"," ","f","a","i","l","u","r","e">>,
      <<"r","a","t","e"," ","l","i","m","i","t">>,
      <<"5","0","3">>, <<"5","0","2">>, <<"5","0","4">> }

\* _is_retryable_error() matching the patterns against the error as written.
_is_retryable_error_CaseSensitive(resp) ==
    IF ~Truthy(resp, "error") THEN FALSE
    ELSE \E pattern \in retryable_patterns : Contains(resp.error, pattern)

\* _is_retryable_error(response.error)
_is_retryable_error(resp) ==
    IF ~Truthy(resp, "error") THEN FALSE
    ELSE LET error_lower == Lower(resp.error)
         IN  \E pattern \in retryable_patterns : Contains(error_lower, pattern)

CircuitKey(sid) == <<"mcp_circuit_breaker", sid>>

\* The comparison of _check_circuit_breaker: the counter has reached the
\* threshold.
ThresholdReached_Off(error_count, error_threshold) == error_count > error_threshold

ThresholdReached(error_count, error_threshold) == error_count >= error_threshold

\* _check_circuit_breaker(server) as [cache, server, db].
_check_circuit_breaker(c, t, srv, row) ==
    LET error_key == CircuitKey(srv.id)
        error_count == CacheGet(c, t, error_key, 0) + 1
        c1 == CacheSet(c, t, error_key, error_count, ErrorWindow)
    IN  IF ThresholdReached(error_count, ErrorThreshold)
        THEN LET srv1 == [srv EXCEPT
                             !.status = Status.ERROR,
                             !.metadata = DictSet(@, "circuit_breaker_triggered",
                                                  IsoNow(t))]
             IN  [cache |-> c1, server |-> srv1,
                  db |-> asave(row, srv1, {"status", "metadata"})]
        ELSE [cache |-> c1, server |-> srv, db |-> row]

\* The backoff delay of handle_error (lines 299-301) with the exponent one
\* too high.
BackoffDelay_Off(retry_count) == Pow(retry_config.backoff_factor, retry_count + 1)

\* The backoff delay of handle_error (lines 299-301).
BackoffDelay(retry_count) == Pow(retry_config.backoff_factor, retry_count)

\* The retry branch with the ceiling test of line 283 admitting a count equal
\* to max_retries.
RetryBranch_Inclusive(req, resp) ==
    IF _is_retryable_error(resp)
    THEN LET retry_count == IF Truthy(req, "context")
                            THEN DictGet(req.context, "retry_count", 0) ELSE 0
         IN  IF retry_count <= retry_config.max_retries
             THEN LET ctx0 == IF ~Truthy(req, "context") THEN EmptyDict
                              ELSE req.context
                      ctx1 == DictSet(ctx0, "retry_count", retry_count + 1)
                      ctx2 == DictSet(ctx1, "should_retry", TRUE)
                      ctx3 == DictSet(ctx2, "retry_delay", BackoffDelay(retry_count))
                  IN  DictSet(req, "context", ctx3)
             ELSE req
    ELSE req

\* The retry branch of handle_error (lines 281-302): the request it leaves.
RetryBranch(req, resp) ==
    IF _is_retryable_error(resp)
    THEN LET retry_count == IF Truthy(req, "context")
                            THEN DictGet(req.context, "retry_count", 0) ELSE 0
         IN  IF retry_count < retry_config.max_retries
             THEN LET ctx0 == IF ~Truthy(req, "context") THEN EmptyDict
                              ELSE req.context
                      ctx1 == DictSet(ctx0, "retry_count", retry_count + 1)
                      ctx2 == DictSet(ctx1, "should_retry", TRUE)
                      ctx3 == DictSet(ctx2, "retry_delay", BackoffDelay(retry_count))
                  IN  DictSet(req, "context", ctx3)
             ELSE req
    ELSE req

\* The test of line 305: the context carries no should_retry mark.
NotMarkedForRetry(req) ==
    ~Truthy(req, "context") \/ ~DictGet(req.context, "should_retry", FALSE)

\* handle_error() returning a response without the error text.
handle_error_DropsError(c, t, srv, row, req, resp) ==
    LET req1 == RetryBranch(req, resp)
    IN  IF NotMarkedForRetry(req1)
        THEN LET cb == _check_circuit_breaker(c, t, srv, row)
             IN  [cache |-> cb.cache, server |-> cb.server, db |-> cb.db,
                  request |-> req1, response |-> [success |-> FALSE], recorded |-> TRUE]
        ELSE [cache |-> c, server |-> srv, db |-> row,
              request |-> req1, response |-> [success |-> FALSE], recorded |-> FALSE]

\* handle_error(server, request, response) as [cache, server, db, request,
\* response, recorded]; recorded: _check_circuit_breaker was called.
handle_error(c, t, srv, row, req, resp) ==
    LET req1 == RetryBranch(req, resp)
    IN  IF NotMarkedForRetry(req1)
        THEN LET cb == _check_circuit_breaker(c, t, srv, row)
             IN  [cache |-> cb.cache, server |-> cb.server, db |-> cb.db,
                  request |-> req1, response |-> resp, recorded |-> TRUE]
        ELSE [cache |-> c, server |-> srv, db |-> row,
              request |-> req1, response |-> resp, recorded |-> FALSE]

-----------------------------------------------------------------------------
(* ResponseTransformer *)

\* The characters \s of a regular expression matches.
Whitespace == {" ", "\t", "\n", "\r", "\f"}

REDACTED == <<"[","R","E","D","A","C","T","E","D","]">>

\* The last index of the run of non-whitespace characters that starts at k.
RunEnd(str, k) ==
    LET stops == {m \in k..Len(str) : str[m] \in Whitespace}
    IN  IF stops = {} THEN Len(str)
        ELSE (CHOOSE m \in stops : \A o \in stops : m <= o) - 1

RECURSIVE ReSubFrom(_, _, _)
\* re.sub(prefix + r"[^\s]+", "[REDACTED]", str, flags=re.IGNORECASE) from
\* index i on: leftmost matches, each as long as it can be.
ReSubFrom(str, i, prefix) ==
    IF i > Len(str) THEN <<>>
    ELSE LET n == Len(prefix)
         IN  IF /\ i + n <= Len(str)
                /\ Lower(SubSeq(str, i, i + n - 1)) = prefix
                /\ str[i + n] \notin Whitespace
             THEN REDACTED \o ReSubFrom(str, RunEnd(str, i + n) + 1, prefix)
             ELSE <<str[i]>> \o ReSubFrom(str, i + 1, prefix)

sensitive_patterns == << <<"t","o","k","e","n","=">>, <<"a","p","i","_","k","e","y","=">>, <<"p","a","s","s","w","o","r","d","=">> >>

\* _sanitize_error_message(error)
_sanitize_error_message(error) ==
    LET s1 == ReSubFrom(error, 1, sensitive_patterns[1])
        s2 == ReSubFrom(s1, 1, sensitive_patterns[2])
    IN  ReSubFrom(s2, 1, sensitive_patterns[3])

\* _transform_claude_response(response, context)
_transform_claude_response(resp, context) ==
    IF resp.success /\ Truthy(resp, "data") /\ "usage" \in DOMAIN resp.data
    THEN LET metadata == IF Truthy(resp, "metadata") THEN resp.metadata ELSE EmptyDict
         IN  DictSet(resp, "metadata", DictSet(metadata, "usage", resp.data["usage"]))
    ELSE resp

\* _transform_github_response(response, context)
_transform_github_response(resp, context) ==
    IF /\ resp.success /\ Truthy(resp, "data")
       /\ Truthy(resp, "metadata") /\ "headers" \in DOMAIN resp.metadata
    THEN LET headers == resp.metadata["headers"]
         IN  DictSet(resp, "metadata",
                     DictSet(resp.metadata, "rate_limit",
                             [k \in DOMAIN headers \cap {"limit", "remaining", "reset"}
                                |-> headers[k]]))
    ELSE resp

\* ResponseTransformer._apply_default_transformations(response, context)
ResponseDefaultTransformations(resp, t) ==
    LET metadata == IF Truthy(resp, "metadata") THEN resp.metadata ELSE EmptyDict
        r1 == DictSet(resp, "metadata", DictSet(metadata, "processed_at", IsoNow(t)))
    IN  IF Truthy(r1, "error")
        THEN DictSet(r1, "error", _sanitize_error_message(r1.error))
        ELSE r1

\* ResponseTransformer.transform(server, response, context)
ResponseTransform(srv, resp, context, t) ==
    IF srv.server_type = "claude" THEN _transform_claude_response(resp, context)
    ELSE IF srv.server_type = "github" THEN _transform_github_response(resp, context)
    ELSE ResponseDefaultTransformations(resp, t)

-----------------------------------------------------------------------------
(* MetricsCollector *)

\* settings.MCP_METRICS_WINDOW
metrics_window == 3

metrics_cache_prefix == "mcp_metrics"

\* The number of response times record_request keeps.
timings_kept == 100

MetricsKey(kind, sid) == <<metrics_cache_prefix, kind, sid>>

MethodKey(sid, method) == <<metrics_cache_prefix, "method", sid, method>>

\* record_connection(server, success): the cache it leaves.
record_connection(c, t, sid, success) ==
    LET cache_key == MetricsKey("connection", sid)
        metrics == CacheGet(c, t, cache_key, [success |-> 0, failure |-> 0])
        metrics1 == IF success THEN [metrics EXCEPT !.success = @ + 1]
                    ELSE [metrics EXCEPT !.failure = @ + 1]
    IN  CacheSet(c, t, cache_key, metrics1, metrics_window)

\* record_request(server, request, response, duration): the cache it leaves.
\* duration is <<>> for None and <<d>> for a number d.
record_request(c, t, sid, req, resp, duration) ==
    LET count_key == MetricsKey("request_count", sid)
        c1 == CacheSet(c, t, count_key, CacheGet(c, t, count_key, 0) + 1,
                       metrics_window)
        method_key == MethodKey(sid, req.method)
        c2 == CacheSet(c1, t, method_key, CacheGet(c1, t, method_key, 0) + 1,
                       metrics_window)
        timing_key == MetricsKey("timing", sid)
        c3 == IF duration # <<>> /\ duration[1] # 0
              THEN LET timings == Append(CacheGet(c2, t, timing_key, <<>>), duration[1])
                       kept == IF Len(timings) > timings_kept
                               THEN SubSeq(timings, Len(timings) - timings_kept + 1,
                                           Len(timings))
                               ELSE timings
                   IN  CacheSet(c2, t, timing_key, kept, metrics_window)
              ELSE c2
        error_key == MetricsKey("errors", sid)
    IN  IF ~resp.success
        THEN CacheSet(c3, t, error_key, CacheGet(c3, t, error_key, 0) + 1,
                      metrics_window)
        ELSE c3

RECURSIVE SumOf(_)
\* sum(timings)
SumOf(timings) ==
    IF timings = <<>> THEN 0 ELSE Head(timings) + SumOf(Tail(timings))

\* min(timings)
MinOf(timings) ==
    CHOOSE x \in {timings[i] : i \in 1..Len(timings)} :
        \A i \in 1..Len(timings) : x <= timings[i]

\* max(timings)
MaxOf(timings) ==
    CHOOSE x \in {timings[i] : i \in 1..Len(timings)} :
        \A i \in 1..Len(timings) : x >= timings[i]

\* a / b, the true division of Python, kept as the fraction it is.
Quotient(a, b) == [num |-> a, den |-> b]

\* get_metrics(server): the dict it returns.
get_metrics(c, t, sid) ==
    LET metrics ==
            [connections |-> CacheGet(c, t, MetricsKey("connection", sid),
                                      [success |-> 0, failure |-> 0]),
             request_count |-> CacheGet(c, t, MetricsKey("request_count", sid), 0),
             error_count |-> CacheGet(c, t, MetricsKey("errors", sid), 0)]
        timings == CacheGet(c, t, MetricsKey("timing", sid), <<>>)
    IN  IF timings # <<>>
        THEN DictSet(metrics, "response_time",
                     [avg |-> Quotient(SumOf(timings), Len(timings)),
                      min |-> MinOf(timings),
                      max |-> MaxOf(timings)])
        ELSE metrics

-----------------------------------------------------------------------------
(* MCPPostProcessingHooks *)

\* post_connect() writing only the status column back.
post_connect_StatusOnly(c, t, srv, row, success, error) ==
    LET srv1 == IF success
                THEN [srv EXCEPT
                        !.status = Status.ACTIVE,
                        !.metadata = DictSet(@, "last_successful_connection",
                                             IsoNow(t))]
                ELSE [srv EXCEPT
                        !.status = Status.ERROR,
                        !.metadata = DictSet(@, "last_connection_error",
                                             IF error # <<>> THEN error[1]
                                             ELSE <<"U","n","k","n","o","w","n"," ","e","r","r","o","r">>)]
    IN  [cache |-> record_connection(c, t, srv.id, success),
         server |-> srv1,
         db |-> asave(row, srv1, {"status"})]

\* post_connect(server, success, error, context) as [cache, server, db];
\* error is <<>> for None and <<text>> for an exception with that text.
post_connect(c, t, srv, row, success, error) ==
    LET srv1 == IF success
                THEN [srv EXCEPT
                        !.status = Status.ACTIVE,
                        !.metadata = DictSet(@, "last_successful_connection",
                                             IsoNow(t))]
                ELSE [srv EXCEPT
                        !.status = Status.ERROR,
                        !.metadata = DictSet(@, "last_connection_error",
                                             IF error # <<>> THEN error[1]
                                             ELSE <<"U","n","k","n","o","w","n"," ","e","r","r","o","r">>)]
    IN  [cache |-> record_connection(c, t, srv.id, success),
         server |-> srv1,
         db |-> asave(row, srv1, {"status", "metadata"})]

\* The duration post_request computes (lines 58-59): <<>> for None.
DurationOf(req, t) ==
    IF Truthy(req, "context") /\ "timestamp" \in DOMAIN req.context
                              /\ req.context["timestamp"] # 0
    THEN <<t - req.context["timestamp"]>>
    ELSE <<>>

\* post_request(server, request, response, context) as [raised, cache,
\* server, db, request, response]; raised is "none", or the TypeError of the
\* log line's {duration:.2f} when duration is None.
post_request(c, t, srv, row, req, resp, context) ==
    LET duration == DurationOf(req, t)
        transformed_response == ResponseTransform(srv, resp, context, t)
        eh == IF ~transformed_response.success
              THEN handle_error(c, t, srv, row, req, transformed_response)
              ELSE [cache |-> c, server |-> srv, db |-> row, request |-> req,
                    response |-> transformed_response, recorded |-> FALSE]
        c1 == record_request(eh.cache, t, srv.id, eh.request, eh.response, duration)
    IN  [raised |-> IF duration = <<>> THEN "TypeError" ELSE "none",
         cache |-> c1, server |-> eh.server, db |-> eh.db,
         request |-> eh.request, response |-> eh.response,
         recorded |-> eh.recorded]

\* post_disconnect() saving a metadata dict that holds only its own stamp.
post_disconnect_FreshMetadata(t, srv, row) ==
    LET srv1 == [srv EXCEPT !.metadata = DictSet(EmptyDict, "last_disconnection", IsoNow(t))]
    IN  [server |-> srv1, db |-> asave(row, srv1, {"metadata"})]

\* post_disconnect(server, context) as [server, db]
post_disconnect(t, srv, row) ==
    LET srv1 == [srv EXCEPT !.metadata = DictSet(@, "last_disconnection", IsoNow(t))]
    IN  [server |-> srv1, db |-> asave(row, srv1, {"metadata"})]

-----------------------------------------------------------------------------
(* Inputs *)

E_timeout == <<"C","o","n","n"," ","T","i","m","e","o","u","t">>
E_invalid == <<"I","n","v","a","l","i","d"," ","k","e","y">>
\* A failed MCPResponse with the given error text.
Failed(error) == [success |-> FALSE, error |-> error]

\* A failed MCPResponse whose error is None.
FailedNoError == [success |-> FALSE]

FailedResponses == {Failed(E_timeout), Failed(E_invalid), FailedNoError}

\* The context bags a caller hands in with a new MCPRequest: None, {}, a
\* retry count of its own, and a hint of its own.
CallerContexts == {EmptyDict, [trace_hint |-> "t1"]} \cup
    {[retry_count |-> k] : k \in 0..retry_config.max_retries}

NewRequests ==
    {[method |-> "list_tools", params |-> EmptyDict]} \cup
    {[method |-> "list_tools", params |-> EmptyDict, context |-> ctx] :
        ctx \in CallerContexts}

-----------------------------------------------------------------------------
(* Initial states *)

NoCall == [op |-> "none"]

NoRequest == [method |-> "none", params |-> EmptyDict]

NoResponse == [success |-> TRUE]

\* Nothing has been sent to the remote end and no connect has succeeded.
NoWire == [sent |-> <<>>, live |-> FALSE]

\* Nothing has been recorded in the metrics: no connection, no request, and
\* no call yet whose time would open the metrics window.
NoTally == [success |-> 0, failure |-> 0, requests |-> 0, errors |-> 0,
            since |-> 0, samples |-> <<>>]

InitHooks ==
    /\ now = 1
    /\ cache = <<>>
    /\ request = NoRequest
    /\ response = NoResponse
    /\ pc = "idle"
    /\ uuids = 0
    /\ resubmits = 0
    /\ call = NoCall
    /\ rlLog = <<>>
    /\ errLog = <<>>
    /\ tally = NoTally

\* The registry as the class body leaves it, and no loader run yet.
InitRegistry ==
    /\ registry = [_providers |-> <<>>, _initialized |-> FALSE]
    /\ loads = [builtin |-> 0, custom |-> 0, calls |-> 0]

\* A provider as BaseMCPProvider.__init__ leaves it, and nothing sent.
InitProvider ==
    /\ provider \in {[_connected |-> FALSE, token |-> tk] : tk \in BOOLEAN}
    /\ wire = NoWire

InitCommon ==
    /\ InitHooks
    /\ InitRegistry
    /\ modules = <<>>
    /\ provider = [_connected |-> FALSE, token |-> TRUE]
    /\ wire = NoWire
    /\ input = <<>>
    /\ procs = <<>>

-----------------------------------------------------------------------------
(* The rate limiter called directly *)

RateLimiterInit ==
    /\ InitCommon
    /\ server = NewServer("claude")
    /\ db = RowOf(server)
    /\ rlOp \in DOMAIN limits

\* One second passes.
Tick ==
    /\ now < MaxTime
    /\ now' = now + 1
    /\ call' = [op |-> "tick"]
    /\ UNCHANGED <<cache, server, db, request, response, flow, rlOp, aside, rlLog, errLog>>

\* A sequential caller calls RateLimiter.check_limit(server, operation).
CheckLimit ==
    \E operation \in Operations :
        LET r == check_limit(cache, now, server.id, operation)
        IN  /\ cache' = r.cache
            /\ call' = [op |-> "check_limit", operation |-> operation, t |-> now,
                        ret |-> r.ret,
                        prior |-> IF operation = rlOp THEN rlLog ELSE <<>>]
            /\ rlLog' = IF r.ret /\ operation = rlOp
                        THEN Append(rlLog, now)
                        ELSE rlLog
            /\ UNCHANGED <<now, server, db, request, response, flow, rlOp, aside, errLog>>

RateLimiterNext == Tick \/ CheckLimit

RateLimiterSpec == RateLimiterInit /\ [][RateLimiterNext]_vars

-----------------------------------------------------------------------------
(* Concurrent callers of check_limit: the cache.get of line 101 and the     *)
(* cache.set of lines 106-110 are separate steps of each worker.            *)

Workers == 1..NumWorkers

ConcurrentLimiterInit ==
    /\ InitHooks
    /\ server = NewServer("claude")
    /\ db = RowOf(server)
    /\ rlOp \in DOMAIN limits
    /\ InitRegistry
    /\ modules = <<>>
    /\ provider = [_connected |-> FALSE, token |-> TRUE]
    /\ wire = NoWire
    /\ input = <<>>
    /\ procs = [w \in Workers |-> [pc |-> "idle", lostAt |-> 0]]

\* One second passes while the workers stand where they are.
TickWorkers ==
    /\ now < MaxTime
    /\ now' = now + 1
    /\ call' = [op |-> "tick"]
    /\ UNCHANGED <<cache, server, db, request, response, flow, rlOp, rlLog, errLog,
                   tally, registry, loads, modules, provider, wire, input, procs>>

\* Worker w enters check_limit(server, rlOp): it reads the counter and, with
\* the maximum reached, returns False.
ReadCounter(w) ==
    /\ procs[w].pc = "idle"
    /\ Len(rlLog) + Cardinality({v \in Workers : procs[v].pc = "write"}) < MaxAdmits
    /\ LET current_count == CacheGet(cache, now, RateKey(server.id, rlOp), 0)
       IN  IF LimitReached(current_count, limits[rlOp].requests)
           THEN /\ call' = [op |-> "check_limit", worker |-> w, ret |-> FALSE]
                /\ procs' = procs
           ELSE /\ call' = [op |-> "cache.get", worker |-> w]
                /\ procs' = [procs EXCEPT ![w] =
                                [pc |-> "write", current_count |-> current_count,
                                 lostAt |-> @.lostAt]]
    /\ UNCHANGED <<now, cache, server, db, request, response, flow, rlOp, rlLog,
                   errLog, tally, registry, loads, modules, provider, wire, input>>

\* Worker w writes the count it read, plus one, and returns True. The write
\* loses an increment when the counter has grown since w read it.
WriteCounter(w) ==
    /\ procs[w].pc = "write"
    /\ LET cache_key == RateKey(server.id, rlOp)
           lost == CacheGet(cache, now, cache_key, 0) > procs[w].current_count
       IN  /\ cache' = CacheSet(cache, now, cache_key, procs[w].current_count + 1,
                                limits[rlOp].window)
           /\ procs' = [procs EXCEPT ![w] =
                           [pc |-> "idle",
                            lostAt |-> IF lost THEN now ELSE @.lostAt]]
    /\ rlLog' = Append(rlLog, now)
    /\ call' = [op |-> "check_limit", worker |-> w, ret |-> TRUE]
    /\ UNCHANGED <<now, server, db, request, response, flow, rlOp, errLog, tally,
                   registry, loads, modules, provider, wire, input>>

ConcurrentLimiterSpec ==
    ConcurrentLimiterInit
        /\ [][TickWorkers \/ \E w \in Workers : ReadCounter(w) \/ WriteCounter(w)]_vars

-----------------------------------------------------------------------------
(* Concurrent handle_error calls on fatal errors of one backend: the        *)
(* cache.get of line 338 and the cache.set of line 339 of                   *)
(* _check_circuit_breaker are separate steps of each worker.                *)

ConcurrentBreakerInit ==
    /\ InitHooks
    /\ server = [NewServer("claude") EXCEPT !.status = Status.ACTIVE]
    /\ db = RowOf(server)
    /\ rlOp = "request"
    /\ InitRegistry
    /\ modules = <<>>
    /\ provider = [_connected |-> FALSE, token |-> TRUE]
    /\ wire = NoWire
    /\ input = <<>>
    /\ procs = [w \in Workers |-> [pc |-> "idle", lostAt |-> 0]]

\* Worker w, handling a fatal error, enters _check_circuit_breaker and reads
\* the error counter.
ReadErrorCount(w) ==
    /\ procs[w].pc = "idle"
    /\ Len(errLog) + Cardinality({v \in Workers : procs[v].pc = "write"}) < MaxErrors
    /\ procs' = [procs EXCEPT ![w] =
                    [pc |-> "write",
                     error_count |-> CacheGet(cache, now, CircuitKey(server.id), 0) + 1,
                     lostAt |-> @.lostAt]]
    /\ call' = [op |-> "cache.get", worker |-> w]
    /\ UNCHANGED <<now, cache, server, db, request, response, flow, rlOp, rlLog,
                   errLog, tally, registry, loads, modules, provider, wire, input>>

\* Worker w writes its count and, with the threshold reached, trips the
\* backend. The write loses an increment when the counter already stands at
\* the count w writes, or above it.
WriteErrorCount(w) ==
    /\ procs[w].pc = "write"
    /\ LET error_key == CircuitKey(server.id)
           error_count == procs[w].error_count
           lost == CacheGet(cache, now, error_key, 0) >= error_count
           srv1 == [server EXCEPT
                       !.status = Status.ERROR,
                       !.metadata = DictSet(@, "circuit_breaker_triggered",
                                            IsoNow(now))]
       IN  /\ cache' = CacheSet(cache, now, error_key, error_count, ErrorWindow)
           /\ IF ThresholdReached(error_count, ErrorThreshold)
              THEN /\ server' = srv1
                   /\ db' = asave(db, srv1, {"status", "metadata"})
              ELSE UNCHANGED <<server, db>>
           /\ procs' = [procs EXCEPT ![w] =
                           [pc |-> "idle",
                            lostAt |-> IF lost THEN now ELSE @.lostAt]]
    /\ errLog' = Append(errLog, now)
    /\ call' = [op |-> "handle_error", worker |-> w]
    /\ UNCHANGED <<now, request, response, flow, rlOp, rlLog, tally, registry,
                   loads, modules, provider, wire, input>>

ConcurrentBreakerSpec ==
    ConcurrentBreakerInit
        /\ [][TickWorkers
                \/ \E w \in Workers : ReadErrorCount(w) \/ WriteErrorCount(w)]_vars

-----------------------------------------------------------------------------
(* Concurrent flows on one backend record: each worker loads its own copy   *)
(* of the row and later hands it to a post hook, which changes the copy and *)
(* saves it with asave(update_fields=...).  The flows run within one second *)
(* of the clock.                                                            *)

ConcurrentFlowsInit ==
    /\ InitHooks
    /\ server = [NewServer("claude") EXCEPT !.status = Status.ACTIVE]
    /\ db = RowOf(server)
    /\ rlOp = "request"
    /\ InitRegistry
    /\ modules = <<>>
    /\ provider = [_connected |-> FALSE, token |-> TRUE]
    /\ wire = NoWire
    /\ input = <<>>
    /\ procs = [w \in Workers |-> [pc |-> "idle"]]

\* Worker w loads the backend record.
LoadServer(w) ==
    /\ procs[w].pc = "idle"
    /\ tally.success + Len(errLog)
          + Cardinality({v \in Workers : procs[v].pc = "loaded"}) <= MaxErrors
    /\ procs' = [procs EXCEPT ![w] =
                    [pc |-> "loaded",
                     server |-> [server EXCEPT !.status = db.status,
                                               !.metadata = db.metadata]]]
    /\ call' = [op |-> "load", worker |-> w]
    /\ UNCHANGED <<now, cache, server, db, request, response, flow, rlOp, rlLog,
                   errLog, tally, registry, loads, modules, provider, wire, input>>

\* Worker w hands its copy to the post hook of its flow: post_connect after a
\* connect that succeeded, post_disconnect, or the circuit breaker of
\* handle_error on a fatal error.
WorkerHook(w) ==
    /\ procs[w].pc = "loaded"
    /\ \E hook \in {"post_connect", "post_disconnect", "_check_circuit_breaker"} :
        LET copy == procs[w].server
            r == IF hook = "post_connect"
                 THEN post_connect(cache, now, copy, db, TRUE, <<>>)
                 ELSE IF hook = "post_disconnect"
                 THEN [cache |-> cache, db |-> post_disconnect(now, copy, db).db]
                 ELSE _check_circuit_breaker(cache, now, copy, db)
        IN  /\ cache' = r.cache
            /\ db' = r.db
            /\ tally' = IF hook = "post_connect"
                        THEN [tally EXCEPT !.success = @ + 1] ELSE tally
            /\ errLog' = IF hook = "_check_circuit_breaker"
                         THEN Append(errLog, now) ELSE errLog
            /\ call' = [op |-> hook, worker |-> w, copy |-> RowOf(copy),
                        before |-> db]
    /\ procs' = [procs EXCEPT ![w] = [pc |-> "idle"]]
    /\ UNCHANGED <<now, server, request, response, flow, rlOp, rlLog, registry,
                   loads, modules, provider, wire, input>>

ConcurrentFlowsSpec ==
    ConcurrentFlowsInit
        /\ [][\E w \in Workers : LoadServer(w) \/ WorkerHook(w)]_vars

-----------------------------------------------------------------------------
(* The error handler called directly *)

ErrorHandlerInit ==
    /\ InitCommon
    /\ \E st \in Statuses :
          server = [NewServer("filesystem") EXCEPT !.status = st]
    /\ db = RowOf(server)
    /\ rlOp = "request"

\* The retry count a context carries; a missing context or count is 0.
RetryCountOf(req) ==
    IF Has(req, "context") THEN DictGet(req.context, "retry_count", 0) ELSE 0

\* The caller builds a new MCPRequest.
NewRequest ==
    /\ request' \in NewRequests
    /\ call' = [op |-> "new_request"]
    /\ UNCHANGED <<now, cache, server, db, response, flow, rlOp, aside, rlLog, errLog>>

\* ErrorHandler.handle_error(server, request, response) on a failed response.
HandleError ==
    /\ request # NoRequest
    /\ Len(errLog) < MaxErrors
    /\ \E resp \in FailedResponses :
        LET r == handle_error(cache, now, server, db, request, resp)
        IN  /\ cache' = r.cache
            /\ server' = r.server
            /\ db' = r.db
            /\ request' = r.request
            /\ response' = r.response
            /\ call' = [op |-> "handle_error", t |-> now, response |-> resp,
                        recorded |-> r.recorded, prior |-> errLog,
                        status |-> server.status,
                        count |-> RetryCountOf(request)]
            /\ errLog' = IF r.recorded THEN Append(errLog, now) ELSE errLog
            /\ UNCHANGED <<now, flow, rlOp, aside, rlLog>>

ErrorHandlerNext == Tick \/ NewRequest \/ HandleError

ErrorHandlerSpec == ErrorHandlerInit /\ [][ErrorHandlerNext]_vars

-----------------------------------------------------------------------------
(* The error handler on error strings of every kind *)

\* str.upper()
Upper(str) ==
    [i \in 1..Len(str) |->
        IF \E u \in DOMAIN LowerOf : LowerOf[u] = str[i]
        THEN CHOOSE u \in DOMAIN LowerOf : LowerOf[u] = str[i]
        ELSE str[i]]

\* The words an error is retried for.
RetryWords ==
    { <<"t","i","m","e","o","u","t">>,
      <<"c","o","n","n","e","c","t","i","o","n"," ","r","e","s","e","t">>,
      <<"t","e","m","p","o","r","a","r","y"," ","f","a","i","l","u","r","e">>,
      <<"r","a","t","e"," ","l","i","m","i","t">>,
      <<"5","0","3">>, <<"5","0","2">>, <<"5","0","4">> }

\* An error message around a word.
Message(word) == <<"H","T","T","P"," ">> \o word \o <<"!">>

\* The error strings a provider hands back: each word as written, in
\* capitals, with a capital first letter, and in capitals inside a message;
\* each word with its last character missing and with a hyphen inside; an
\* unrelated message; and the empty string.
ErrorTexts ==
    LET written == RetryWords \cup {Upper(w) : w \in RetryWords}
                      \cup {<<Upper(w)[1]>> \o Tail(w) : w \in RetryWords}
        broken == {SubSeq(w, 1, Len(w) - 1) : w \in RetryWords}
                      \cup {SubSeq(w, 1, 2) \o <<"-">> \o SubSeq(w, 3, Len(w)) :
                                w \in RetryWords}
    IN  written \cup broken \cup {Message(Upper(w)) : w \in RetryWords}
                \cup {E_invalid, <<>>}

ClassifierInit ==
    /\ InitCommon
    /\ server = NewServer("filesystem")
    /\ db = RowOf(server)
    /\ rlOp = "request"

\* ErrorHandler.handle_error(server, request, response) on a failed response
\* whose error is one of the strings or None.
Classify ==
    /\ request # NoRequest
    /\ Len(errLog) < MaxErrors
    /\ \E resp \in {Failed(e) : e \in ErrorTexts} \cup {FailedNoError} :
        LET r == handle_error(cache, now, server, db, request, resp)
        IN  /\ cache' = r.cache
            /\ server' = r.server
            /\ db' = r.db
            /\ request' = r.request
            /\ response' = r.response
            /\ call' = [op |-> "handle_error", response |-> resp,
                        retryable |-> _is_retryable_error(resp),
                        recorded |-> r.recorded]
            /\ errLog' = IF r.recorded THEN Append(errLog, now) ELSE errLog
    /\ UNCHANGED <<now, flow, rlOp, aside, rlLog>>

ClassifierSpec == ClassifierInit /\ [][NewRequest \/ Classify]_vars

-----------------------------------------------------------------------------
(* The Connect, Request and Disconnect flows: each pre hook, then the       *)
(* provider call, then the post hook, one flow at a time.                   *)
(* pc is "idle" between flows, "connect" and "execute" while the provider   *)
(* call of a flow is under way, and "returned" once post_request has        *)
(* handed its response back.                                                *)

P_empty == EmptyDict
P_timeout == [k \in {K_timeout} |-> [int |-> 15]]
P_secret == [k \in {K_api_key} |-> [str |-> <<"k">>]]
P_inject == [k \in {K_q} |-> [str |-> <<"'"," ","o","r"," ","'","1","'","=","'","1">>]]

\* The requests the caller of the pipeline builds.
PipelineRequests ==
    { [method |-> "list_tools", params |-> P_empty],
      [method |-> "search_code", params |-> P_timeout],
      [method |-> "list_tools", params |-> P_secret],
      [method |-> "list_tools", params |-> P_inject],
      [method |-> "delete_file", params |-> P_empty] }

\* The context the callers hand to the hooks.
HookContext == EmptyDict

\* An error text whose retryable word the response transform redacts.
E_masked == <<"t","o","k","e","n","=","t","i","m","e","o","u","t">>

\* The responses Provider.execute_request returns.
ProviderResponses ==
    { [success |-> TRUE, data |-> [tools |-> "tools"]],
      Failed(E_timeout), Failed(E_invalid), Failed(E_masked) }

PipelineInit ==
    /\ InitCommon
    /\ \E type \in ServerTypes, active \in BOOLEAN :
          server = [NewServer(type) EXCEPT !.is_active = active]
    /\ db = RowOf(server)
    /\ rlOp = "request"

\* No flow is under way.
Idle == pc \in {"idle", "returned"}

\* Connect flow: pre_connect(server).
PreConnect ==
    /\ Idle
    /\ LET r == pre_connect(cache, now, server, db)
       IN  /\ cache' = r.cache
           /\ server' = r.server
           /\ db' = r.db
           /\ pc' = IF r.raised = "none" THEN "connect" ELSE "idle"
           /\ call' = [op |-> "pre_connect", raised |-> r.raised]
    /\ UNCHANGED <<now, request, response, uuids, resubmits, rlOp, aside, rlLog, errLog>>

\* Connect flow: Provider.connect() succeeds or raises, then
\* post_connect(server, success, error).
PostConnect ==
    /\ pc = "connect"
    /\ \E success \in BOOLEAN :
        LET error == IF success THEN <<>> ELSE << <<"C","o","n","n","e","c","t","i","o","n"," ","f","a","i","l","e","d">> >>
            r == post_connect(cache, now, server, db, success, error)
        IN  /\ cache' = r.cache
            /\ server' = r.server
            /\ db' = r.db
            /\ call' = [op |-> "post_connect", success |-> success]
    /\ pc' = "idle"
    /\ UNCHANGED <<now, request, response, uuids, resubmits, rlOp, aside, rlLog, errLog>>

\* Request flow: the caller hands req to pre_request(server, req).
CallPreRequest(req) ==
    LET r == pre_request(cache, now, server, req, HookContext, uuids + 1)
    IN  /\ cache' = r.cache
        /\ request' = r.request
        /\ uuids' = IF r.raised = "none" THEN uuids + 1 ELSE uuids
        /\ pc' = IF r.raised = "none" THEN "execute" ELSE "idle"
        /\ call' = [op |-> "pre_request", raised |-> r.raised, request |-> req]
        /\ UNCHANGED <<now, server, db, response, rlOp, aside, rlLog, errLog>>

\* The caller submits a new request.
Submit ==
    /\ Idle
    /\ uuids < MaxSubmits
    /\ resubmits' = 0
    /\ \E req \in PipelineRequests : CallPreRequest(req)

\* The caller of the retry loop submits its request.
SubmitOnce ==
    /\ pc = "idle"
    /\ uuids = 0
    /\ resubmits' = 0
    /\ \E req \in PipelineRequests : CallPreRequest(req)

\* The caller resubmits the request whose response failed and whose context
\* is marked should_retry.
Resubmit ==
    /\ pc = "returned"
    /\ uuids < MaxAttempts
    /\ ~response.success
    /\ Truthy(request, "context")
    /\ DictGet(request.context, "should_retry", FALSE)
    /\ resubmits' = resubmits + 1
    /\ CallPreRequest(request)

\* Request flow: Provider.execute_request(request) returns a response, then
\* post_request(server, request, response).
PostRequest ==
    /\ pc = "execute"
    /\ \E resp \in ProviderResponses :
        LET r == post_request(cache, now, server, db, request, resp, HookContext)
        IN  /\ cache' = r.cache
            /\ server' = r.server
            /\ db' = r.db
            /\ request' = r.request
            /\ response' = r.response
            /\ call' = [op |-> "post_request", raised |-> r.raised,
                        response |-> resp]
    /\ pc' = "returned"
    /\ UNCHANGED <<now, uuids, resubmits, rlOp, aside, rlLog, errLog>>

\* Disconnect flow: Provider.disconnect(), then post_disconnect(server).
PostDisconnect ==
    /\ Idle
    /\ LET r == post_disconnect(now, server, db)
       IN  /\ server' = r.server
           /\ db' = r.db
    /\ pc' = "idle"
    /\ call' = [op |-> "post_disconnect"]
    /\ UNCHANGED <<now, cache, request, response, uuids, resubmits, rlOp, aside, rlLog,
                   errLog>>

\* The flows are followed at one instant: the clock only stamps the metadata
\* and expires the counters, which RateLimiterSpec, ErrorHandlerSpec and
\* RetryLoopSpec follow through time.
PipelineNext ==
    \/ PreConnect \/ PostConnect \/ Submit \/ PostRequest \/ PostDisconnect

PipelineSpec == PipelineInit /\ [][PipelineNext]_vars

\* The caller-driven retry loop: one request, resubmitted while its context
\* is marked should_retry.
RetryLoopNext == Tick \/ SubmitOnce \/ Resubmit \/ PostRequest

RetryLoopSpec == PipelineInit /\ [][RetryLoopNext]_vars

-----------------------------------------------------------------------------
(* post_request called directly, as the unit tests call it *)

E_secret == <<"a","u","t","h"," ","T","o","k","e","n","=","a","b","c","1"," ","f","a","i","l","e","d">>

\* The requests handed to post_request: without a context, with an empty
\* one, and tagged as pre_request tags them.
TrackedRequests(t) ==
    { [method |-> "list_tools", params |-> EmptyDict],
      [method |-> "list_tools", params |-> EmptyDict, context |-> EmptyDict],
      [method |-> "list_tools", params |-> EmptyDict,
       context |-> [request_id |-> 1, timestamp |-> t]] }

\* The responses handed to post_request.
HookResponses ==
    { [success |-> TRUE, data |-> [tools |-> "tools"], metadata |-> EmptyDict],
      [success |-> TRUE, data |-> [usage |-> "usage"]],
      Failed(E_secret), Failed(E_timeout) }

PostHooksInit ==
    /\ InitCommon
    /\ \E type \in ServerTypes : server = NewServer(type)
    /\ db = RowOf(server)
    /\ rlOp = "request"

\* The caller builds a request.
NewTrackedRequest ==
    /\ request' \in TrackedRequests(now)
    /\ call' = [op |-> "new_request"]
    /\ UNCHANGED <<now, cache, server, db, response, flow, rlOp, aside, rlLog, errLog>>

\* post_request(server, request, response) with a response of the caller's.
DirectPostRequest ==
    /\ request # NoRequest
    /\ Len(errLog) < MaxErrors
    /\ CacheGet(cache, now, MetricsKey("request_count", server.id), 0) < MaxRequests
    /\ \E resp \in HookResponses :
        LET r == post_request(cache, now, server, db, request, resp, HookContext)
        IN  /\ cache' = r.cache
            /\ server' = r.server
            /\ db' = r.db
            /\ request' = r.request
            /\ response' = r.response
            /\ call' = [op |-> "post_request", raised |-> r.raised,
                        response |-> resp]
            /\ errLog' = IF r.recorded THEN Append(errLog, now) ELSE errLog
    /\ UNCHANGED <<now, flow, rlOp, aside, rlLog>>

PostHooksNext == Tick \/ NewTrackedRequest \/ DirectPostRequest

PostHooksSpec == PostHooksInit /\ [][PostHooksNext]_vars

-----------------------------------------------------------------------------
(* The MetricsCollector called directly, as test_metrics_collector calls it *)

\* The durations record_request is handed: None, 0 and positive ones.
Durations == {<<>>, <<0>>, <<1>>, <<2>>}

\* The number of recording calls made so far.
Recorded == tally.success + tally.failure + tally.requests

\* The time of the first recording call, which opens the metrics window.
Since == IF tally.since = 0 THEN now ELSE tally.since

MetricsInit ==
    /\ InitCommon
    /\ server = NewServer("claude")
    /\ db = RowOf(server)
    /\ rlOp = "request"

\* collector.record_connection(server, success)
RecordConnection ==
    /\ Recorded < MaxRecords
    /\ \E success \in BOOLEAN :
        /\ cache' = record_connection(cache, now, server.id, success)
        /\ tally' = IF success
                    THEN [tally EXCEPT !.success = @ + 1, !.since = Since]
                    ELSE [tally EXCEPT !.failure = @ + 1, !.since = Since]
        /\ call' = [op |-> "record_connection", success |-> success]
    /\ UNCHANGED <<now, server, db, request, response, flow, rlOp, rlLog, errLog,
                   apart>>

\* collector.record_request(server, request, response, duration)
RecordRequest ==
    /\ Recorded < MaxRecords
    /\ \E ok \in BOOLEAN, duration \in Durations :
        LET req == [method |-> "test", params |-> EmptyDict]
            resp == [success |-> ok]
        IN  /\ cache' = record_request(cache, now, server.id, req, resp, duration)
            /\ tally' = [tally EXCEPT
                            !.requests = @ + 1,
                            !.errors = IF ok THEN @ ELSE @ + 1,
                            !.since = Since,
                            !.samples = @ \o duration]
            /\ call' = [op |-> "record_request", success |-> ok,
                        duration |-> duration]
    /\ UNCHANGED <<now, server, db, request, response, flow, rlOp, rlLog, errLog,
                   apart>>

\* collector.get_metrics(server)
GetMetrics ==
    /\ call' = [op |-> "get_metrics", ret |-> get_metrics(cache, now, server.id)]
    /\ UNCHANGED <<hooksState, tally, procs, apart>>

MetricsNext == Tick \/ RecordConnection \/ RecordRequest \/ GetMetrics

MetricsSpec == MetricsInit /\ [][MetricsNext]_vars

-----------------------------------------------------------------------------
(* post_connect called directly, as test_post_connect calls it *)

ConnectHooksInit ==
    /\ InitCommon
    /\ \E st \in Statuses : server = [NewServer("claude") EXCEPT !.status = st]
    /\ db = RowOf(server)
    /\ rlOp = "connect"

\* hooks.post_connect(server, success, error) with the outcome of a connect:
\* success, a failure with an exception, a failure with error=None.
DirectPostConnect ==
    /\ tally.success + tally.failure < MaxRecords
    /\ \E success \in BOOLEAN, error \in {<<>>, <<E_timeout>>} :
        /\ success => error = <<>>
        /\ LET r == post_connect(cache, now, server, db, success, error)
           IN  /\ cache' = r.cache
               /\ server' = r.server
               /\ db' = r.db
        /\ tally' = IF success THEN [tally EXCEPT !.success = @ + 1]
                    ELSE [tally EXCEPT !.failure = @ + 1]
        /\ call' = [op |-> "post_connect", success |-> success, error |-> error]
    /\ UNCHANGED <<now, request, response, flow, rlOp, rlLog, errLog, apart>>

ConnectHooksSpec == ConnectHooksInit /\ [][Tick \/ DirectPostConnect]_vars

-----------------------------------------------------------------------------
(* MCPServerRegistry *)

\* What importing a provider module and reading its class can find: no such
\* module (ImportError), no such class in it (AttributeError), a class that
\* does not inherit from BaseMCPProvider, one that inherits and leaves
\* abstract operations unimplemented, one that implements them all.
Kinds == {"absent", "noclass", "unrelated", "partial", "full"}

\* issubclass(provider_class, BaseMCPProvider)
IsSubclass(provider_class) == provider_class.kind \in {"partial", "full"}

builtin_providers ==
    <<"claude", "filesystem", "github", "slack", "postgres", "web_search">>

\* register_provider(name, provider_class) as [raised, registry]
register_provider(reg, name, provider_class) ==
    IF ~IsSubclass(provider_class)
    THEN [raised |-> "ValueError", registry |-> reg]
    ELSE [raised |-> "none",
          registry |-> [reg EXCEPT !._providers = DictSet(@, name, provider_class)]]

RECURSIVE _load_builtin_providers(_, _, _)
\* _load_builtin_providers() as [raised, registry]: its loop from the i-th
\* name on.  ImportError and AttributeError are caught, any other exception
\* leaves the loop.
_load_builtin_providers(reg, mods, i) ==
    IF i > Len(builtin_providers) THEN [raised |-> "none", registry |-> reg]
    ELSE LET provider_name == builtin_providers[i]
             kind == mods.builtin[provider_name]
         IN  IF kind \in {"absent", "noclass"}
             THEN _load_builtin_providers(reg, mods, i + 1)
             ELSE LET r == register_provider(reg, provider_name,
                               [kind |-> kind, module |-> provider_name])
                  IN  IF r.raised # "none"
                      THEN [raised |-> r.raised, registry |-> reg]
                      ELSE _load_builtin_providers(r.registry, mods, i + 1)

RECURSIVE _load_custom_providers(_, _, _)
\* _load_custom_providers(): the registry it leaves; names are the keys of
\* settings.MCP_CUSTOM_PROVIDERS still to load, in the order of the dict.
\* Every exception is caught.
_load_custom_providers(reg, mods, names) ==
    IF names = <<>> THEN reg
    ELSE LET provider_name == Head(names)
             kind == mods.custom[provider_name]
         IN  IF kind \in {"absent", "noclass"}
             THEN _load_custom_providers(reg, mods, Tail(names))
             ELSE _load_custom_providers(
                      register_provider(reg, provider_name,
                          [kind |-> kind, module |-> provider_name]).registry,
                      mods, Tail(names))

\* initialize() as [raised, registry, loads]
initialize(reg, mods, ld) ==
    IF reg._initialized
    THEN [raised |-> "none", registry |-> reg, loads |-> ld]
    ELSE LET b == _load_builtin_providers(reg, mods, 1)
             custom_providers ==
                 IF "custom" \in DOMAIN mods.custom THEN <<"custom">> ELSE <<>>
             ld1 == [ld EXCEPT !.builtin = @ + 1]
         IN  IF b.raised # "none"
             THEN [raised |-> b.raised, registry |-> b.registry, loads |-> ld1]
             ELSE [raised |-> "none",
                   registry |-> [_load_custom_providers(b.registry, mods,
                                                        custom_providers)
                                    EXCEPT !._initialized = TRUE],
                   loads |-> [ld1 EXCEPT !.custom = @ + 1]]

\* get_provider(name) as [raised, registry, loads, ret]; ret is <<>> for None
get_provider(reg, mods, ld, name) ==
    LET i == initialize(reg, mods, ld)
    IN  IF i.raised # "none"
        THEN [raised |-> i.raised, registry |-> i.registry, loads |-> i.loads,
              ret |-> <<>>]
        ELSE [raised |-> "none", registry |-> i.registry, loads |-> i.loads,
              ret |-> IF name \in DOMAIN i.registry._providers
                      THEN <<i.registry._providers[name]>> ELSE <<>>]

\* list_providers() as [raised, registry, loads, ret]; ret is the set of the
\* names it lists
list_providers(reg, mods, ld) ==
    LET i == initialize(reg, mods, ld)
    IN  [raised |-> i.raised, registry |-> i.registry, loads |-> i.loads,
         ret |-> IF i.raised # "none" THEN {} ELSE DOMAIN i.registry._providers]

\* validate_provider(name)
validate_provider(reg, name) == name \in DOMAIN reg._providers

\* What this process finds when it imports the provider modules.
ModuleTables ==
    {[builtin |-> [n \in {builtin_providers[i] : i \in 1..Len(builtin_providers)} |->
                     IF n = "claude" THEN k1
                     ELSE IF n = "filesystem" THEN k2 ELSE "absent"],
      custom |-> c] :
        k1 \in Kinds, k2 \in Kinds,
        c \in {<<>>} \cup {[n \in {"custom"} |-> k] : k \in Kinds}}

RegistryInit ==
    /\ InitHooks
    /\ server = NewServer("claude")
    /\ db = RowOf(server)
    /\ rlOp = "request"
    /\ InitRegistry
    /\ modules \in ModuleTables
    /\ provider = [_connected |-> FALSE, token |-> TRUE]
    /\ wire = NoWire
    /\ input = <<>>
    /\ procs = <<>>

\* MCPServerRegistry.initialize()
Initialize ==
    /\ loads.calls < MaxCalls
    /\ LET r == initialize(registry, modules, loads)
       IN  /\ registry' = r.registry
           /\ loads' = [r.loads EXCEPT !.calls = @ + 1]
           /\ call' = [op |-> "initialize", raised |-> r.raised]
    /\ UNCHANGED <<hooksState, tally, procs, modules, provider, wire, input>>

\* MCPServerRegistry.get_provider(name)
GetProvider ==
    /\ loads.calls < MaxCalls
    /\ \E name \in {"claude", "filesystem", "custom", "mock"} :
        LET r == get_provider(registry, modules, loads, name)
        IN  /\ registry' = r.registry
            /\ loads' = [r.loads EXCEPT !.calls = @ + 1]
            /\ call' = [op |-> "get_provider", name |-> name,
                        raised |-> r.raised, ret |-> r.ret]
    /\ UNCHANGED <<hooksState, tally, procs, modules, provider, wire, input>>

\* MCPServerRegistry.list_providers()
ListProviders ==
    /\ loads.calls < MaxCalls
    /\ LET r == list_providers(registry, modules, loads)
       IN  /\ registry' = r.registry
           /\ loads' = [r.loads EXCEPT !.calls = @ + 1]
           /\ call' = [op |-> "list_providers", raised |-> r.raised,
                       ret |-> r.ret]
    /\ UNCHANGED <<hooksState, tally, procs, modules, provider, wire, input>>

\* MCPServerRegistry.register_provider(name, provider_class) by a caller
RegisterProvider ==
    /\ "mock" \notin DOMAIN registry._providers
    /\ \E kind \in {"unrelated", "partial", "full"} :
        LET r == register_provider(registry, "mock",
                                   [kind |-> kind, module |-> "mock"])
        IN  /\ registry' = r.registry
            /\ call' = [op |-> "register_provider", name |-> "mock",
                        kind |-> kind, raised |-> r.raised]
    /\ UNCHANGED <<hooksState, tally, procs, loads, modules, provider, wire, input>>

\* MCPServerRegistry.validate_provider(name)
ValidateProvider ==
    /\ \E name \in {"claude", "filesystem", "custom", "mock"} :
        call' = [op |-> "validate_provider", name |-> name,
                 ret |-> validate_provider(registry, name)]
    /\ UNCHANGED <<hooksState, tally, procs, registry, loads, modules, provider, wire, input>>

RegistrySpec ==
    RegistryInit
        /\ [][Initialize \/ GetProvider \/ ListProviders \/ RegisterProvider
                \/ ValidateProvider]_vars

-----------------------------------------------------------------------------
(* ClaudeMCPProvider *)

\* connect() with the flag set before the status of the reply is read.
connect_EagerFlag(p, w, status) ==
    IF ~p.token
    THEN [raised |-> "MCPConnectionError", provider |-> p, wire |-> w]
    ELSE [raised |-> IF status = "200" THEN "none" ELSE "MCPConnectionError",
          provider |-> [p EXCEPT !._connected = TRUE],
          wire |-> [sent |-> Append(w.sent, "GET /health"),
                    live |-> w.live \/ status = "200"]]

\* connect() as [raised, provider, wire]; status is what GET /health comes
\* back with: "200", another status, or "ClientError".
connect(p, w, status) ==
    IF ~p.token
    THEN [raised |-> "MCPConnectionError", provider |-> p, wire |-> w]
    ELSE IF status = "200"
    THEN [raised |-> "none",
          provider |-> [p EXCEPT !._connected = TRUE],
          wire |-> [sent |-> Append(w.sent, "GET /health"), live |-> TRUE]]
    ELSE [raised |-> "MCPConnectionError", provider |-> p,
          wire |-> [w EXCEPT !.sent = Append(@, "GET /health")]]

\* is_connected()
is_connected(p) == p._connected

\* disconnect() as [provider, wire]
disconnect(p, w) ==
    [provider |-> [p EXCEPT !._connected = FALSE],
     wire |-> [w EXCEPT !.live = FALSE]]

\* execute_request(request) as [raised, wire, response]; status is what
\* POST /execute comes back with.
execute_request(p, w, status) ==
    IF ~p._connected
    THEN [raised |-> "MCPRequestError", wire |-> w, response |-> NoResponse]
    ELSE [raised |-> "none",
          wire |-> [w EXCEPT !.sent = Append(@, "POST /execute")],
          response |-> IF status = "200"
                       THEN [success |-> TRUE, data |-> [tools |-> "tools"]]
                       ELSE Failed(E_timeout)]

ProviderInit ==
    /\ InitHooks
    /\ server = NewServer("claude")
    /\ db = RowOf(server)
    /\ rlOp = "request"
    /\ InitRegistry
    /\ modules = <<>>
    /\ InitProvider
    /\ input = <<>>
    /\ procs = <<>>

\* await provider.connect()
Connect ==
    /\ Len(wire.sent) < MaxSent
    /\ \E status \in {"200", "401", "ClientError"} :
        LET r == connect(provider, wire, status)
        IN  /\ provider' = r.provider
            /\ wire' = r.wire
            /\ call' = [op |-> "connect", raised |-> r.raised]
    /\ UNCHANGED <<hooksState, tally, procs, registry, loads, modules, input>>

\* await provider.disconnect()
Disconnect ==
    /\ LET r == disconnect(provider, wire)
       IN  /\ provider' = r.provider
           /\ wire' = r.wire
    /\ call' = [op |-> "disconnect"]
    /\ UNCHANGED <<hooksState, tally, procs, registry, loads, modules, input>>

\* await provider.execute_request(request)
ExecuteRequest ==
    /\ Len(wire.sent) < MaxSent
    /\ \E status \in {"200", "500", "ClientError"} :
        LET r == execute_request(provider, wire, status)
        IN  /\ wire' = r.wire
            /\ call' = [op |-> "execute_request", raised |-> r.raised,
                        response |-> r.response]
    /\ UNCHANGED <<hooksState, tally, procs, registry, loads, modules, provider, input>>

ProviderSpec == ProviderInit /\ [][Connect \/ Disconnect \/ ExecuteRequest]_vars

\* BaseMCPProvider.health_check() as [ret, provider, wire, connected]:
\* connect, ping, disconnect, return response.success; any exception on the
\* way is logged and False returned. status is what GET /health comes back
\* with; ping is what the provider's execute_request does with the ping:
\* "200", "500" and "ClientError" as in execute_request above, and
\* "MCPRequestError" for an implementation that raises it.
health_check(p, w, status, ping) ==
    LET c == connect(p, w, status)
    IN  IF c.raised # "none"
        THEN [ret |-> FALSE, provider |-> c.provider, wire |-> c.wire,
              connected |-> FALSE]
        ELSE IF ping = "MCPRequestError"
        THEN [ret |-> FALSE, provider |-> c.provider,
              wire |-> [c.wire EXCEPT !.sent = Append(@, "POST /execute")],
              connected |-> TRUE]
        ELSE LET e == execute_request(c.provider, c.wire, ping)
                 d == disconnect(c.provider, e.wire)
             IN  [ret |-> e.response.success, provider |-> d.provider,
                  wire |-> d.wire, connected |-> TRUE]

\* await provider.health_check()
HealthCheck ==
    /\ Len(wire.sent) + 1 < MaxSent
    /\ \E status \in {"200", "401", "ClientError"},
          ping \in {"200", "500", "ClientError", "MCPRequestError"} :
        LET r == health_check(provider, wire, status, ping)
        IN  /\ provider' = r.provider
            /\ wire' = r.wire
            /\ call' = [op |-> "health_check", ret |-> r.ret,
                        connected |-> r.connected, ping |-> ping]
    /\ UNCHANGED <<hooksState, tally, procs, registry, loads, modules, input>>

HealthCheckSpec ==
    ProviderInit /\ [][Connect \/ Disconnect \/ ExecuteRequest \/ HealthCheck]_vars

-----------------------------------------------------------------------------
(* The request transformer called directly *)

\* The parameters a caller supplies: any of timeout, per_page, sort, q and
\* user_context, each with a value that is not the default.
CallerParams ==
    LET value == [k \in {K_timeout, K_per_page, K_sort, K_q, K_user_context} |->
                    IF k = K_timeout THEN [int |-> 15]
                    ELSE IF k = K_per_page THEN [int |-> 5]
                    ELSE IF k = K_sort THEN [str |-> <<"s","t","a","r","s">>]
                    ELSE IF k = K_q THEN [str |-> <<"x">>]
                    ELSE [dict |-> [j \in {K_user_id} |-> [str |-> <<"u","0">>]]]]
    IN  {[k \in keys |-> value[k]] : keys \in SUBSET DOMAIN value}

\* The contexts a caller hands to transform: none, a user, a user and session.
CallerHints ==
    {EmptyDict, [user_id |-> <<"u","1">>],
     [user_id |-> <<"u","1">>, session_id |-> <<"s","1">>]}

TransformInit ==
    /\ InitHooks
    /\ \E type \in ServerTypes : server = NewServer(type)
    /\ db = RowOf(server)
    /\ rlOp = "request"
    /\ InitRegistry
    /\ modules = <<>>
    /\ provider = [_connected |-> FALSE, token |-> TRUE]
    /\ wire = NoWire
    /\ \E ctx \in CallerHints : input = [context |-> ctx]
    /\ procs = <<>>

\* The caller builds a request.
NewParamRequest ==
    /\ call.op # "new_request"
    /\ \E method \in {"search_code", "list_tools"}, params \in CallerParams :
          request' = [method |-> method, params |-> params]
    /\ call' = [op |-> "new_request"]
    /\ UNCHANGED <<now, cache, server, db, response, flow, rlOp, aside, rlLog, errLog>>

\* transformer.transform(server, request, context)
Transform ==
    /\ call.op = "new_request"
    /\ request' = RequestTransform(server, request, input.context)
    /\ call' = [op |-> "transform", original |-> request]
    /\ UNCHANGED <<now, cache, server, db, response, flow, rlOp, aside, rlLog, errLog>>

TransformSpec == TransformInit /\ [][NewParamRequest \/ Transform]_vars

-----------------------------------------------------------------------------
(* MCPValidationHooks *)

Letters == DOMAIN LowerOf \cup {LowerOf[u] : u \in DOMAIN LowerOf}

Digits == {"0", "1", "2", "3", "4", "5", "6", "7", "8", "9"}

\* The bounds _validate_server_name puts on len(name).
min_name_length == 3
max_name_length == 255

\* re.match(r"^[a-zA-Z0-9\s\-_]+$", name)
NameMatches(name) ==
    /\ name # <<>>
    /\ \A i \in 1..Len(name) :
          name[i] \in Letters \cup Digits \cup Whitespace \cup {"-", "_"}

\* _validate_server_name(name): the list of error messages.
_validate_server_name(name) ==
    IF name = <<>> THEN <<"Server name is required">>
    ELSE (IF Len(name) < min_name_length
          THEN <<"Server name must be at least 3 characters">> ELSE <<>>)
      \o (IF Len(name) > max_name_length
          THEN <<"Server name must not exceed 255 characters">> ELSE <<>>)
      \o (IF ~NameMatches(name)
          THEN <<"Server name can only contain alphanumeric characters, spaces, hyphens, and underscores">>
          ELSE <<>>)

\* str.endswith(suffix)
EndsWith(str, suffix) ==
    /\ Len(suffix) <= Len(str)
    /\ SubSeq(str, Len(str) - Len(suffix) + 1, Len(str)) = suffix

\* urllib.parse.urlparse(url) as [scheme, netloc]: the scheme is what stands
\* before the first ":" when that is a letter followed by letters, digits,
\* "+", "-" and ".", lowered; the netloc is what follows "//" up to the next
\* "/", "?" or "#", as written. No URL here holds a bracket, so the
\* ValueError of a malformed IPv6 literal is never raised.
urlparse(url) ==
    LET colons == {k \in 1..Len(url) : url[k] = ":"}
        i == IF colons = {} THEN 0
             ELSE CHOOSE k \in colons : \A o \in colons : k <= o
        hasScheme == /\ i > 1
                     /\ url[1] \in Letters
                     /\ \A k \in 1..(i - 1) :
                           url[k] \in Letters \cup Digits \cup {"+", "-", "."}
        rest == IF hasScheme THEN SubSeq(url, i + 1, Len(url)) ELSE url
        stops == {k \in 3..Len(rest) : rest[k] \in {"/", "?", "#"}}
        end == IF stops = {} THEN Len(rest)
               ELSE (CHOOSE k \in stops : \A o \in stops : k <= o) - 1
    IN  [scheme |-> IF hasScheme THEN Lower(SubSeq(url, 1, i - 1)) ELSE <<>>,
         netloc |-> IF Len(rest) >= 2 /\ rest[1] = "/" /\ rest[2] = "/"
                    THEN SubSeq(rest, 3, end) ELSE <<>>]

\* _validate_endpoint(endpoint) of a validator v: the list of error messages
\* (the two domain messages without the netloc they end with).
_validate_endpoint(v, endpoint) ==
    IF endpoint = <<>> THEN <<"Endpoint URL is required">>
    ELSE LET parsed == urlparse(endpoint)
             listed(domains) ==
                 \E k \in 1..Len(domains) : EndsWith(parsed.netloc, domains[k])
         IN  (IF parsed.scheme = <<>>
              THEN <<"Endpoint must include a scheme (http/https)">> ELSE <<>>)
          \o (IF parsed.scheme \notin {<<"h","t","t","p">>, <<"h","t","t","p","s">>, <<"w","s">>, <<"w","s","s">>}
              THEN <<"Endpoint scheme must be http, https, ws, or wss">> ELSE <<>>)
          \o (IF parsed.netloc = <<>>
              THEN <<"Endpoint must include a valid host">> ELSE <<>>)
          \o (IF v.allowed_domains # <<>> /\ ~listed(v.allowed_domains)
              THEN <<"Endpoint domain not in allowed list">> ELSE <<>>)
          \o (IF v.blocked_domains # <<>> /\ listed(v.blocked_domains)
              THEN <<"Endpoint domain is blocked">> ELSE <<>>)

\* validate_server_configuration(server) of a validator v: the errors by
\* stage, for a server with an empty configuration, no authentication and no
\* server_type, for which the last three stages find nothing.
validate_server_configuration(v, srv) ==
    LET name_errors == _validate_server_name(srv.name)
        endpoint_errors == _validate_endpoint(v, srv.endpoint)
        errors1 == IF name_errors # <<>>
                   THEN DictSet(EmptyDict, "name", name_errors) ELSE EmptyDict
    IN  IF endpoint_errors # <<>>
        THEN DictSet(errors1, "endpoint", endpoint_errors) ELSE errors1

-----------------------------------------------------------------------------
(* The validator called directly, as TestValidationHooks calls it *)

D_anthropic == <<"a","n","t","h","r","o","p","i","c",".","c","o","m">>
D_localhost == <<"l","o","c","a","l","h","o","s","t">>
D_badsite == <<"b","a","d","s","i","t","e",".","c","o","m">>

\* MCP_ALLOWED_DOMAINS and MCP_BLOCKED_DOMAINS: unset, as the test sets
\* them, and with the blocked domain allowed as well.
Validators ==
    {[allowed_domains |-> a, blocked_domains |-> b] :
        a \in {<<>>, <<D_anthropic, D_localhost>>,
                <<D_anthropic, D_localhost, D_badsite>>},
        b \in {<<>>, <<D_badsite>>}}

\* Names of each length around the two bounds, of letters but for one
\* character, the first or the last; and the empty name.
Names ==
    {<<>>} \cup
    {[i \in 1..n |-> IF i = (IF first THEN 1 ELSE n) THEN c ELSE "a"] :
        n \in {min_name_length - 1, min_name_length, min_name_length + 1,
                max_name_length, max_name_length + 1},
        first \in BOOLEAN,
        c \in {"a", "Z", "7", " ", "-", "_", "\t", "\n", "@", "."}}

\* The parts endpoints are put together from: scheme "://" host port path.
UrlParts ==
    {[scheme |-> sc, host |-> h, port |-> po, path |-> pa] :
        sc \in {<<"h","t","t","p">>, <<"h","t","t","p","s">>, <<"w","s","s">>, <<"f","t","p">>},
        h \in {D_localhost, D_badsite, <<"a","p","i",".">> \o D_anthropic, <<"n","o","t","a","l","l","o","w","e","d",".","c","o","m">>},
        po \in {<<>>, <<":","3","0","0","0">>},
        pa \in {<<>>, <<"/","a","p","i">>}}

UrlOf(parts) == parts.scheme \o <<":", "/", "/">> \o parts.host \o parts.port \o parts.path

ValidationInit ==
    /\ InitHooks
    /\ server = NewServer("claude")
    /\ db = RowOf(server)
    /\ rlOp = "request"
    /\ InitRegistry
    /\ modules = <<>>
    /\ provider = [_connected |-> FALSE, token |-> TRUE]
    /\ wire = NoWire
    /\ \E v \in Validators : input = [validator |-> v]
    /\ procs = <<>>

\* validator.validate_server_configuration(server) for a server of that name
ValidateServerName ==
    /\ \E name \in Names :
        LET srv == [name |-> name, endpoint |-> UrlOf([scheme |-> <<"h","t","t","p">>, host |-> D_localhost, port |-> <<>>, path |-> <<>>])]
        IN  /\ input' = [validator |-> input.validator, name |-> name]
            /\ call' = [op |-> "validate_server_configuration",
                        errors |-> validate_server_configuration(input.validator, srv)]
    /\ UNCHANGED <<hooksState, tally, procs, registry, loads, modules, provider, wire>>

\* validator._validate_endpoint(endpoint)
ValidateEndpoint ==
    /\ \E parts \in UrlParts :
        /\ input' = [validator |-> input.validator, parts |-> parts]
        /\ call' = [op |-> "_validate_endpoint",
                    errors |-> _validate_endpoint(input.validator, UrlOf(parts))]
    /\ UNCHANGED <<hooksState, tally, procs, registry, loads, modules, provider, wire>>

ValidationSpec == ValidationInit /\ [][ValidateServerName \/ ValidateEndpoint]_vars

-----------------------------------------------------------------------------
(* C1 *)

\* The number of calls of the window that is open at time t: the longest
\* suffix of the log whose calls each came less than one window after the one
\* before, the last of them less than one window before t.
RECURSIVE OpenWindowCalls(_, _, _)
OpenWindowCalls(log, t, window) ==
    IF log = <<>> THEN 0
    ELSE IF t - log[Len(log)] >= window THEN 0
    ELSE 1 + OpenWindowCalls(SubSeq(log, 1, Len(log) - 1), log[Len(log)], window)

\* C1: for each operation class with maximum N and window W, a check_limit
\* call made when fewer than N calls were allowed in the open window returns
\* allowed (so the first N calls from an empty counter are allowed, and so is
\* a call made once the window has elapsed), and a call made when N calls
\* were allowed in the open window returns denied.
C1_RateLimitWindow ==
    (call.op = "check_limit" /\ call.operation = rlOp) =>
        LET n == OpenWindowCalls(call.prior, call.t, limits[rlOp].window)
        IN  /\ (n < limits[rlOp].requests => call.ret = TRUE)
            /\ (n >= limits[rlOp].requests => call.ret = FALSE)
            /\ (call.prior # <<>> /\
                call.t - call.prior[Len(call.prior)] >= limits[rlOp].window
                    => call.ret = TRUE)

\* N calls were allowed in one window, and after the window has elapsed a
\* call is allowed again.
C1_Witness ==
    /\ rlOp = "connect"
    /\ call.op = "check_limit"
    /\ call.operation = "connect"
    /\ call.ret = TRUE
    /\ Len(call.prior) >= ConnectRateLimit
    /\ call.t - call.prior[Len(call.prior)] >= ConnectRateWindow
    /\ OpenWindowCalls(SubSeq(call.prior, 1, Len(call.prior) - 1),
                       call.prior[Len(call.prior)], ConnectRateWindow)
         = ConnectRateLimit - 1

-----------------------------------------------------------------------------
(* C2 *)

\* The number of calls of the log made less than one window before time t.
CallsWithin(log, t, window) ==
    Cardinality({i \in 1..Len(log) : t - log[i] < window})

\* The circuit-breaker trip as _check_circuit_breaker leaves it: status ERROR,
\* the trip time stamped in the metadata, status and metadata saved.
Tripped(srv, row, t) ==
    /\ srv.status = Status.ERROR
    /\ "circuit_breaker_triggered" \in DOMAIN srv.metadata
    /\ srv.metadata["circuit_breaker_triggered"] = IsoNow(t)
    /\ row = RowOf(srv)

\* C2: when the error handler records an error against the circuit breaker
\* and it is the threshold-th (or a later) error of the open error window, the
\* backend's status becomes ERROR, the trip time is stamped in its metadata
\* and both are saved; in particular threshold errors recorded less than one
\* window apart trip it.  When fewer than threshold errors have been recorded
\* in the open window, status, metadata and the saved row stay as they were.
C2_CircuitBreakerTrip ==
    [][ (call'.op = "handle_error" /\ call'.recorded) =>
          LET n == OpenWindowCalls(errLog, now, ErrorWindow) + 1
          IN  /\ (n >= ErrorThreshold => Tripped(server', db', now))
              /\ (CallsWithin(errLog, now, ErrorWindow) + 1 >= ErrorThreshold
                    => Tripped(server', db', now))
              /\ (n < ErrorThreshold =>
                    /\ server'.status = server.status
                    /\ server'.metadata = server.metadata
                    /\ db' = db) ]_vars

\* Exactly threshold errors were recorded in one window and the backend,
\* which was not in ERROR before, has been tripped.
C2_Witness ==
    /\ call.op = "handle_error"
    /\ call.recorded
    /\ call.status # Status.ERROR
    /\ OpenWindowCalls(call.prior, call.t, ErrorWindow) = ErrorThreshold - 1
    /\ Tripped(server, db, call.t)

-----------------------------------------------------------------------------
(* C3, C4, C6 *)

\* The context carries the should_retry mark.
MarkedForRetry(req) ==
    Has(req, "context") /\ DictGet(req.context, "should_retry", FALSE)

\* The backoff delays of the default factor 2 for retry counts 0, 1, 2.
DefaultDelays == <<1, 2, 4>>

\* C3: handle_error on a retryable error and a context whose retry_count k is
\* below max_retries leaves the context with retry_count = k + 1,
\* should_retry = true and retry_delay = 2 ^ k.
C3_RetryBackoff ==
    [][ (/\ call'.op = "handle_error"
         /\ _is_retryable_error(call'.response)
         /\ RetryCountOf(request) < retry_config.max_retries) =>
          LET k == RetryCountOf(request)
          IN  /\ Has(request', "context")
              /\ DOMAIN request'.context =
                   (IF Has(request, "context") THEN DOMAIN request.context ELSE {})
                     \cup {"retry_count", "should_retry", "retry_delay"}
              /\ request'.context["retry_count"] = k + 1
              /\ request'.context["should_retry"] = TRUE
              /\ request'.context["retry_delay"] = DefaultDelays[k + 1] ]_vars

\* A third retry has been scheduled, with a delay of 4.
C3_Witness ==
    /\ call.op = "handle_error"
    /\ _is_retryable_error(call.response)
    /\ call.count = 2
    /\ MarkedForRetry(request)
    /\ request.context["retry_count"] = 3
    /\ request.context["retry_delay"] = 4

\* C4: after handle_error on a retryable error with the context's
\* retry_count equal to max_retries, the context carries no should_retry
\* mark.
C4_NoRetryAtMax ==
    [][ (/\ call'.op = "handle_error"
         /\ _is_retryable_error(call'.response)
         /\ RetryCountOf(request) = retry_config.max_retries) =>
          ~MarkedForRetry(request') ]_vars

\* The circuit-breaker error counter of the backend, as the cache holds it.
ErrorCounter(c, t) == CacheGet(c, t, CircuitKey(server.id), 0)

\* C6: a handle_error call that schedules no retry (the error is fatal, or
\* the retry count has reached max_retries) adds exactly one to the backend's
\* circuit-breaker error counter; a call that schedules a retry leaves the
\* counter as it was.
C6_ErrorCounted ==
    [][ call'.op = "handle_error" =>
          LET scheduled == /\ _is_retryable_error(call'.response)
                           /\ RetryCountOf(request) < retry_config.max_retries
          IN  IF scheduled
              THEN ErrorCounter(cache', now) = ErrorCounter(cache, now)
              ELSE ErrorCounter(cache', now) = ErrorCounter(cache, now) + 1 ]_vars

-----------------------------------------------------------------------------
(* C5 *)

\* C5: the caller that resubmits its request each time the response failed
\* and the context has should_retry set resubmits it at most max_retries
\* times.
C5_RetryLoopBounded == resubmits <= retry_config.max_retries

-----------------------------------------------------------------------------
(* C7 *)

\* C7: once the backend's status is ERROR, no step of a Connect, Request or
\* Disconnect flow changes it.
C7_ErrorIsSticky ==
    [][ server.status = Status.ERROR => server'.status = Status.ERROR ]_vars

-----------------------------------------------------------------------------
(* C8 *)

\* The connect counter has reached its maximum.
ConnectDenied ==
    CacheGet(cache, now, RateKey(server.id, "connect"), 0) >= ConnectRateLimit

\* The request counter has reached its maximum.
RequestDenied ==
    CacheGet(cache, now, RateKey(server.id, "request"), 0) >= RequestRateLimit

\* C8: pre_connect on an inactive backend or with the connect limit reached
\* raises, stamps no metadata and saves nothing; pre_request with the request
\* limit reached or on a request the security check rejects raises and leaves
\* the request's params and context as the caller built them; after either
\* failure the flow is over: no provider call and no post hook follows.
C8_FailedPreHookHasNoEffect ==
    [][ /\ (call'.op = "pre_connect" /\ (~server.is_active \/ ConnectDenied))
              => call'.raised # "none"
        /\ (call'.op = "pre_connect" /\ call'.raised # "none")
              => /\ server' = server
                 /\ db' = db
                 /\ pc' = "idle"
        /\ (call'.op = "pre_request" /\
              (RequestDenied \/ check_request(call'.request) # {}))
              => call'.raised # "none"
        /\ (call'.op = "pre_request" /\ call'.raised # "none")
              => /\ request' = call'.request
                 /\ pc' = "idle" ]_vars

\* pre_request has rejected a request that the transform would have given a
\* default timeout, and the request is as the caller built it.
C8_Witness ==
    /\ call.op = "pre_request"
    /\ call.raised = "ValueError: Security check failed"
    /\ server.server_type = "filesystem"
    /\ request = call.request
    /\ K_timeout \notin DOMAIN request.params
    /\ ~Has(request, "context")
    /\ pc = "idle"

-----------------------------------------------------------------------------
(* C9 *)

\* C9: a failure in the Request flow never leaves a stage as an exception:
\* pre_request raises nothing, and post_request on a failed response raises
\* nothing and hands back a Response with success = false.
C9_FailuresAreResponses ==
    /\ call.op = "pre_request" => call.raised = "none"
    /\ (call.op = "post_request" /\ ~call.response.success)
          => (call.raised = "none" /\ ~response.success)

-----------------------------------------------------------------------------
(* C10 *)

\* The text holds a substring the three sensitive patterns match.
HoldsSecret(str) ==
    \E k \in 1..Len(sensitive_patterns) :
        LET prefix == sensitive_patterns[k]
            n == Len(prefix)
        IN  \E i \in 1..(Len(str) - n) :
                /\ Lower(SubSeq(str, i, i + n - 1)) = prefix
                /\ str[i + n] \notin Whitespace

\* C10: for every backend type, the Response post_request returns carries a
\* processing timestamp in its metadata and its error string holds no
\* token=..., api_key=... or password=... substring.
C10_DefaultPassAlways ==
    (call.op = "post_request" /\ call.raised = "none") =>
        /\ Has(response, "metadata")
        /\ "processed_at" \in DOMAIN response.metadata
        /\ (Has(response, "error") => ~HoldsSecret(response.error))

-----------------------------------------------------------------------------
(* C11, C12 *)

\* Every recording call so far was made less than one metrics window ago.
InsideMetricsWindow == tally.since = 0 \/ now - tally.since < metrics_window

\* C11: inside one metrics window, after s successful and f failed
\* record_connection calls and r record_request calls of which e carried a
\* failed response, get_metrics returns connections.success = s,
\* connections.failure = f, request_count = r and error_count = e; and after
\* a single request of duration d the response-time average, minimum and
\* maximum all equal d.
C11_MetricsAccumulate ==
    (call.op = "get_metrics" /\ InsideMetricsWindow) =>
        /\ call.ret.connections =
              [success |-> tally.success, failure |-> tally.failure]
        /\ call.ret.request_count = tally.requests
        /\ call.ret.error_count = tally.errors
        /\ (tally.requests = 1 /\ Len(tally.samples) = 1) =>
              LET d == tally.samples[1]
              IN  /\ "response_time" \in DOMAIN call.ret
                  /\ call.ret["response_time"].avg.num
                        = d * call.ret["response_time"].avg.den
                  /\ call.ret["response_time"].min = d
                  /\ call.ret["response_time"].max = d

\* The last n entries of a list (all of it when it is shorter).
LastOf(list, n) ==
    IF Len(list) <= n THEN list ELSE SubSeq(list, Len(list) - n + 1, Len(list))

\* The response-time list the cache holds for the backend.
StoredTimings == CacheGet(cache, now, MetricsKey("timing", server.id), <<>>)

\* C12: after any sequence of record_request calls the stored response-time
\* list has at most 100 entries, and they are the durations of the most
\* recent recorded requests in call order: inside one metrics window, the
\* last 100 of them (all of them while there are fewer).
C12_TimingsAreMostRecent ==
    /\ Len(StoredTimings) <= timings_kept
    /\ StoredTimings = LastOf(tally.samples, Len(StoredTimings))
    /\ InsideMetricsWindow => StoredTimings = LastOf(tally.samples, timings_kept)

-----------------------------------------------------------------------------
(* C13, C14, C15 *)

\* C13: over any sequence of initialize, get_provider and list_providers
\* calls, the built-in loader and the custom loader each run exactly once:
\* the first of these calls runs both, and every later call runs neither.
C13_LoadersRunOnce ==
    [][ call'.op \in {"initialize", "get_provider", "list_providers"} =>
          IF loads.calls = 0
          THEN loads'.builtin = 1 /\ loads'.custom = 1
          ELSE loads'.builtin = loads.builtin /\ loads'.custom = loads.custom ]_vars

\* C14: register_provider with a class that does not implement the full
\* provider contract (a class unrelated to BaseMCPProvider, or a subclass
\* that leaves contract operations unimplemented) raises, leaves the registry
\* as it was, and the name is listed by no list_providers call and returned
\* by no get_provider call.
C14_IncompleteProviderRejected ==
    [][ /\ (call'.op = "register_provider" /\ call'.kind # "full") =>
              (call'.raised # "none" /\ registry' = registry)
        /\ (call'.op = "list_providers" /\ call'.raised = "none") =>
              \A n \in call'.ret : registry'._providers[n].kind = "full"
        /\ (call'.op = "get_provider" /\ call'.ret # <<>>) =>
              call'.ret[1].kind = "full" ]_vars

\* The providers of the module table that did load: the built-in and custom
\* names whose module holds a class register_provider accepts.
Loadable ==
    {n \in DOMAIN modules.builtin : IsSubclass([kind |-> modules.builtin[n]])}
        \cup {n \in DOMAIN modules.custom : IsSubclass([kind |-> modules.custom[n]])}

\* C15: initialize() completes and marks the registry initialized whatever
\* built-in and custom providers are missing or fail to load (module absent,
\* class absent, class rejected by register_provider), and every provider
\* that did load is registered.
C15_InitializeToleratesFailures ==
    [][ call'.op = "initialize" =>
          /\ call'.raised = "none"
          /\ registry'._initialized
          /\ Loadable \subseteq DOMAIN registry'._providers ]_vars

-----------------------------------------------------------------------------
(* C16 *)

\* C16: in every sequence of connect, disconnect and execute_request calls
\* on a provider, execute_request sends a remote call only if a connect has
\* succeeded and no disconnect has happened since; in every other state it
\* raises the not-connected error and sends nothing.
C16_ExecuteOnlyWhenConnected ==
    [][ call'.op = "execute_request" =>
          /\ (wire'.sent # wire.sent) => wire.live
          /\ ~wire.live => (call'.raised = "MCPRequestError" /\ wire' = wire)
          /\ wire.live => (call'.raised = "none" /\
                            wire'.sent = Append(wire.sent, "POST /execute")) ]_vars

\* A request was sent while connected, and after the disconnect the next one
\* was refused, as was one after a connect that failed.
C16_Witness ==
    /\ call.op = "execute_request"
    /\ call.raised = "MCPRequestError"
    /\ wire.sent = <<"GET /health", "POST /execute", "GET /health">>
    /\ ~wire.live

-----------------------------------------------------------------------------
(* C17 *)

\* C17: post_connect sets the status to ACTIVE and stamps the success
\* timestamp when the connect succeeded, sets the status to ERROR and stamps
\* the error text when it failed, saves status and metadata, and adds exactly
\* one connection outcome of the matching kind to the metrics, leaving the
\* other metrics as they were.
C17_PostConnectRecordsOutcome ==
    [][ call'.op = "post_connect" =>
          LET before == get_metrics(cache, now, server.id)
              after == get_metrics(cache', now', server.id)
          IN  /\ call'.success =>
                    /\ server'.status = Status.ACTIVE
                    /\ server'.metadata =
                         DictSet(server.metadata, "last_successful_connection", now)
                    /\ after = [before EXCEPT !.connections.success = @ + 1]
              /\ ~call'.success =>
                    /\ server'.status = Status.ERROR
                    /\ server'.metadata =
                         DictSet(server.metadata, "last_connection_error",
                                 IF call'.error = <<>>
                                 THEN <<"U","n","k","n","o","w","n"," ","e","r","r","o","r">>
                                 ELSE call'.error[1])
                    /\ after = [before EXCEPT !.connections.failure = @ + 1]
              /\ db' = [status |-> server'.status, metadata |-> server'.metadata]
    ]_vars

\* A connect failed after one had succeeded: both stamps are saved and one
\* outcome of each kind is counted.
C17_Witness ==
    /\ call.op = "post_connect"
    /\ ~call.success
    /\ server.status = Status.ERROR
    /\ db.status = Status.ERROR
    /\ {"last_successful_connection", "last_connection_error"} \subseteq DOMAIN db.metadata
    /\ get_metrics(cache, now, server.id).connections = [success |-> 1, failure |-> 1]

-----------------------------------------------------------------------------
(* C18 *)

\* Two characters are the same letter, whatever their case.
SameLetter(a, b) ==
    \/ a = b
    \/ a \in DOMAIN LowerOf /\ LowerOf[a] = b
    \/ b \in DOMAIN LowerOf /\ LowerOf[b] = a

\* The error is a string that contains one of the retry words, whatever the
\* case of its letters.
MentionsRetryWord(resp) ==
    /\ Has(resp, "error")
    /\ \E w \in RetryWords : \E i \in 1..(Len(resp.error) - Len(w) + 1) :
          \A k \in 1..Len(w) : SameLetter(resp.error[i + k - 1], w[k])

\* C18: the error handler classifies an error as retryable exactly when it
\* is a string that contains, in any case, one of timeout, connection reset,
\* temporary failure, rate limit, 503, 502, 504; for every other error
\* string and for a missing or empty error it is fatal, and handling it does
\* not mark the context should_retry.
C18_RetryableClassification ==
    [][ call'.op = "handle_error" =>
          /\ call'.retryable <=> MentionsRetryWord(call'.response)
          /\ ~MentionsRetryWord(call'.response) =>
                /\ MarkedForRetry(request') => MarkedForRetry(request)
                /\ call'.recorded \/ MarkedForRetry(request) ]_vars

\* After a fatal error was counted, an error naming RATE LIMIT in capitals
\* inside a message was classified retryable and the context marked.
C18_Witness ==
    /\ call.op = "handle_error"
    /\ Has(call.response, "error")
    /\ call.response.error =
          <<"H","T","T","P"," ","R","A","T","E"," ","L","I","M","I","T","!">>
    /\ call.retryable
    /\ MarkedForRetry(request)
    /\ RetryCountOf(request) = 1
    /\ errLog # <<>>

-----------------------------------------------------------------------------
(* C19 *)

\* C19: validate_server_configuration reports a name error for every name
\* shorter than 3 or longer than 255 characters and for every name holding a
\* character other than a letter, a digit, a space, "_" or "-" (a tab or a
\* newline among them), and reports no name error for any other name.
C19_NameErrorExactlyForBadNames ==
    call.op = "validate_server_configuration" =>
        LET name == input.name
            bad == \/ Len(name) < 3
                   \/ Len(name) > 255
                   \/ \E i \in 1..Len(name) :
                         name[i] \notin Letters \cup Digits \cup {" ", "_", "-"}
        IN  bad <=> "name" \in DOMAIN call.errors

-----------------------------------------------------------------------------
(* C20 *)

\* The host is one of the domains or a subdomain of one.
HostListed(host, domains) ==
    \E k \in 1..Len(domains) : EndsWith(host, domains[k])

\* C20: _validate_endpoint rejects every endpoint whose host matches no
\* entry of a non-empty allow-list and every endpoint whose host matches an
\* entry of a non-empty block-list, allow-listed or not; it accepts an
\* endpoint of an allowed scheme whose host matches an allow-list entry by
\* suffix and no block-list entry, with or without an explicit port.
C20_EndpointAllowAndBlockLists ==
    call.op = "_validate_endpoint" =>
        LET v == input.validator
            host == input.parts.host
            allowed == v.allowed_domains # <<>> /\ HostListed(host, v.allowed_domains)
            blocked == v.blocked_domains # <<>> /\ HostListed(host, v.blocked_domains)
        IN  /\ (v.allowed_domains # <<>> /\ ~allowed) => call.errors # <<>>
            /\ blocked => call.errors # <<>>
            /\ (allowed /\ ~blocked /\ input.parts.scheme \in {<<"h","t","t","p">>, <<"h","t","t","p","s">>, <<"w","s">>, <<"w","s","s">>}) =>
                  call.errors = <<>>

-----------------------------------------------------------------------------
(* C21 *)

\* The keys the pass for a backend type writes, given the request and context.
KeysSetByPass(type, req, context) ==
    IF type = "claude"
    THEN (IF "user_id" \in DOMAIN context THEN {K_user_context} ELSE {})
    ELSE IF type = "github"
    THEN (IF req.method = "search_code" THEN {K_per_page, K_sort} ELSE {})
    ELSE {K_timeout}

\* C21: for every backend type and request, transform keeps every parameter
\* key of the original request, with its original value unless the pass
\* applied to that backend type sets the key; a timeout, per_page or sort the
\* caller supplied keeps the caller's value.
C21_TransformKeepsParams ==
    call.op = "transform" =>
        LET before == call.original.params
            after == request.params
        IN  /\ request.method = call.original.method
            /\ \A k \in DOMAIN before :
                  /\ k \in DOMAIN after
                  /\ after[k] # before[k] =>
                        k \in KeysSetByPass(server.server_type, call.original,
                                            input.context)
                  /\ k \in {K_timeout, K_per_page, K_sort} => after[k] = before[k]
            /\ DOMAIN after \subseteq
                  DOMAIN before \cup KeysSetByPass(server.server_type,
                                                   call.original, input.context)

\* A code search on a github backend that came with its own per_page and no
\* sort left with that per_page and the default sort.
C21_Witness ==
    /\ call.op = "transform"
    /\ server.server_type = "github"
    /\ DOMAIN call.original.params = {K_per_page, K_q}
    /\ request.params[K_per_page] = [int |-> 5]
    /\ K_sort \in DOMAIN request.params

-----------------------------------------------------------------------------
(* C22 *)

\* C22: every health_check whose connect succeeded has called disconnect
\* when it returns, whatever the ping did, so the provider is not left
\* connected; and health_check returns a boolean.
C22_HealthCheckDisconnects ==
    call.op = "health_check" =>
        /\ call.ret \in BOOLEAN
        /\ call.connected => (~provider._connected /\ ~wire.live)

-----------------------------------------------------------------------------
(* C23 *)

\* The metric kinds with a live entry for the backend: the cache keys are
\* <<prefix, kind, id>> and, for a per-method counter, <<prefix, "method",
\* id, method>>.
RecordedKinds(c, t, sid) ==
    {key[2] : key \in {k \in DOMAIN c : /\ CacheLive(c, t, k)
                                        /\ k[1] = metrics_cache_prefix
                                        /\ k[3] = sid}}

\* The metric kind a field of the snapshot reports; a field other than the
\* four below counts as the per-method counts.
KindOfField(field) ==
    IF field = "connections" THEN "connection"
    ELSE IF field = "request_count" THEN "request_count"
    ELSE IF field = "error_count" THEN "errors"
    ELSE IF field = "response_time" THEN "timing"
    ELSE "method"

\* C23: get_metrics returns one snapshot with a field for every metric kind
\* recorded for the backend: connection outcomes, request count, per-method
\* counts, response times and error count; and it leaves the cache, values
\* and expiry times, as it was.
C23_SnapshotHoldsEveryKind ==
    [][ call'.op = "get_metrics" =>
          /\ cache' = cache
          /\ RecordedKinds(cache, now, server.id) \subseteq
                {KindOfField(f) : f \in DOMAIN call'.ret} ]_vars

-----------------------------------------------------------------------------
(* C24 *)

\* Two records agree on every field outside the given ones.
SameOutside(a, b, fields) ==
    /\ DOMAIN a \ fields = DOMAIN b \ fields
    /\ \A f \in DOMAIN a \ fields : a[f] = b[f]

\* C24: handle_error returns the response it was given, unchanged, for
\* retryable and fatal errors alike; all it changes is the request context
\* (retry_count, should_retry, retry_delay), the circuit-breaker counter and,
\* when the breaker trips, the status and metadata of the backend.
C24_HandleErrorFrame ==
    [][ call'.op = "handle_error" =>
          /\ response' = call'.response
          /\ SameOutside(request', request, {"context"})
          /\ request' # request =>
                SameOutside(request'.context,
                            IF Has(request, "context") THEN request.context
                            ELSE EmptyDict,
                            {"retry_count", "should_retry", "retry_delay"})
          /\ SameOutside(cache', cache, {CircuitKey(server.id)})
          /\ SameOutside(server', server, {"status", "metadata"})
          /\ server' # server =>
                /\ CacheGet(cache', now, CircuitKey(server.id), 0) >= ErrorThreshold
                /\ server'.status = Status.ERROR
          /\ db' = [status |-> server'.status, metadata |-> server'.metadata]
    ]_vars

\* After a fatal error tripped the breaker, a timeout was handled on a fresh
\* request: its context is marked and the response came back as given.
C24_Witness ==
    /\ call.op = "handle_error"
    /\ response = Failed(E_timeout)
    /\ call.response = response
    /\ ~call.recorded
    /\ RetryCountOf(request) = 1
    /\ MarkedForRetry(request)
    /\ "circuit_breaker_triggered" \in DOMAIN server.metadata

-----------------------------------------------------------------------------
(* C25 *)

\* C25: in every registry state, initialized or not, validate_provider(name)
\* returns true exactly for the names for which get_provider(name) returns
\* an implementation.
C25_ValidateAgreesWithGet ==
    call.op = "validate_provider" =>
        (call.ret <=>
            get_provider(registry, modules, loads, call.name).ret # <<>>)

-----------------------------------------------------------------------------
(* C26 *)

\* The number of check_limit calls of class rlOp that returned allowed at the
\* present second.
AllowedThisSecond == Cardinality({i \in 1..Len(rlLog) : rlLog[i] = now})

\* C26: with concurrent callers whose cache read and cache write are
\* separate steps, more than the maximum of checks return allowed within one
\* window (here: within one second) in some interleaving, and only in
\* interleavings in which a write lost an increment in that second.
C26_OverAdmissionNeedsLostUpdate ==
    AllowedThisSecond > limits[rlOp].requests =>
        \E w \in Workers : procs[w].lostAt = now

\* Four request checks were allowed in one second against a maximum of
\* three, and the counter stands below the number allowed.
C26_Witness ==
    /\ rlOp = "request"
    /\ AllowedThisSecond = RequestRateLimit + 1
    /\ CacheGet(cache, now, RateKey(server.id, "request"), 0) < AllowedThisSecond
    /\ \E w \in Workers : procs[w].lostAt = now

-----------------------------------------------------------------------------
(* C27 *)

\* The number of fatal errors the workers have handled at the present second.
ErrorsThisSecond == Cardinality({i \in 1..Len(errLog) : errLog[i] = now})

\* Every worker is between two handle_error calls.
AllIdle == \A w \in Workers : procs[w].pc = "idle"

\* C27: with concurrent handle_error calls whose counter read and write are
\* separate steps, in some interleaving `threshold` non-retried errors are
\* handled inside one error window (here: within one second) and the backend
\* is not tripped; this happens only when a write in that second lost an
\* increment.
C27_MissedTripNeedsLostUpdate ==
    (AllIdle /\ ErrorsThisSecond >= ErrorThreshold /\ server.status # Status.ERROR) =>
        \E w \in Workers : procs[w].lostAt = now

\* As many fatal errors as the threshold were handled in one second; the
\* counter stands below the threshold and the backend is still ACTIVE.
C27_Witness ==
    /\ AllIdle
    /\ ErrorsThisSecond = ErrorThreshold
    /\ CacheGet(cache, now, CircuitKey(server.id), 0) < ErrorThreshold
    /\ server.status = Status.ACTIVE
    /\ db.status = Status.ACTIVE

-----------------------------------------------------------------------------
(* C28 *)

\* A post hook has just saved a worker's copy.
HookSaved(c) == c.op \in {"post_connect", "post_disconnect", "_check_circuit_breaker"}

\* The metadata key a hook stamps.
StampOf(hook) ==
    IF hook = "post_connect" THEN "last_successful_connection"
    ELSE IF hook = "post_disconnect" THEN "last_disconnection"
    ELSE "circuit_breaker_triggered"

\* C28: flows that run concurrently on separately loaded copies of one
\* backend record save their own status and whole metadata with no version
\* check, so the last save wins and a status change or stamp of the other
\* flow is lost in some interleaving (a trip overwritten back to ACTIVE with
\* its timestamp gone); a save removes or changes a stamp of another flow in
\* the row only when the saved copy was loaded before that stamp was written.
C28_LastSaveWins ==
    [][ HookSaved(call') =>
          \A k \in DOMAIN db.metadata \ {StampOf(call'.op)} :
              (k \notin DOMAIN db'.metadata \/ db'.metadata[k] # db.metadata[k])
                  => \/ k \notin DOMAIN call'.copy.metadata
                     \/ call'.copy.metadata[k] # db.metadata[k] ]_vars

\* The breaker had tripped the backend and stamped the trip; a Connect flow
\* that had loaded its copy before the trip then saved ACTIVE and a metadata
\* without the trip stamp.
C28_Witness ==
    /\ call.op = "post_connect"
    /\ call.before.status = Status.ERROR
    /\ "circuit_breaker_triggered" \in DOMAIN call.before.metadata
    /\ call.copy.status = Status.ACTIVE
    /\ db.status = Status.ACTIVE
    /\ "circuit_breaker_triggered" \notin DOMAIN db.metadata

-----------------------------------------------------------------------------
(* C29 *)

\* C29: a check_limit call that returns denied leaves the counter and its
\* expiry time as they were, so a denied call neither extends the window nor
\* delays the moment at which checks are allowed again.
C29_DeniedLeavesCounter ==
    [][ (call'.op = "check_limit" /\ ~call'.ret) =>
          /\ cache' = cache
          /\ \A op \in DOMAIN limits :
                LET key == RateKey(server.id, op)
                IN  key \in DOMAIN cache =>
                      /\ cache'[key].val = cache[key].val
                      /\ cache'[key].exp = cache[key].exp ]_vars

\* A connect check was denied one second after the counter was last written:
\* the counter still expires one window after that write.
C29_Witness ==
    /\ rlOp = "connect"
    /\ call.op = "check_limit"
    /\ call.operation = "connect"
    /\ ~call.ret
    /\ call.t = rlLog[Len(rlLog)] + 1
    /\ cache[RateKey(server.id, "connect")] =
          [val |-> ConnectRateLimit, exp |-> rlLog[Len(rlLog)] + ConnectRateWindow]

-----------------------------------------------------------------------------
(* C30: pre_request and handle_error called in any order on one request *)

\* One MCPRequest, as its caller built it, on a backend of any type.
RetryCountInit ==
    /\ now = 1
    /\ cache = <<>>
    /\ \E type \in ServerTypes : server = NewServer(type)
    /\ db = RowOf(server)
    /\ request \in NewRequests
    /\ response = NoResponse
    /\ pc = "idle"
    /\ uuids = 0
    /\ resubmits = 0
    /\ call = NoCall
    /\ rlOp = "request"
    /\ rlLog = <<>>
    /\ errLog = <<>>
    /\ tally = NoTally
    /\ InitRegistry
    /\ modules = <<>>
    /\ provider = [_connected |-> FALSE, token |-> TRUE]
    /\ wire = NoWire
    /\ input = <<>>
    /\ procs = <<>>

\* pre_request(server, request) on the request as the calls so far left it.
PreRequestAgain ==
    /\ uuids < MaxPreRequests
    /\ LET r == pre_request(cache, now, server, request, HookContext, uuids + 1)
       IN  /\ cache' = r.cache
           /\ request' = r.request
           /\ uuids' = IF r.raised = "none" THEN uuids + 1 ELSE uuids
           /\ call' = [op |-> "pre_request", raised |-> r.raised,
                       request |-> request]
    /\ UNCHANGED <<now, server, db, response, pc, resubmits, rlOp, aside, rlLog,
                   errLog>>

\* The retry count depends on no clock: the calls are followed within one
\* second.
RetryCountSpec ==
    RetryCountInit /\ [][PreRequestAgain \/ HandleError]_vars

\* C30: in every sequence of pre_request and handle_error calls on one
\* request context, retry_count never exceeds max_retries and never
\* decreases, and it grows, by exactly one, in precisely the handle_error
\* calls that see a retryable error with retry_count below max_retries.
C30_RetryCountMonotoneAndBounded ==
    [][ LET before == RetryCountOf(request)
            after == RetryCountOf(request')
            retried == /\ call'.op = "handle_error"
                       /\ _is_retryable_error(call'.response)
                       /\ before < retry_config.max_retries
        IN  /\ after <= retry_config.max_retries
            /\ after >= before
            /\ after = IF retried THEN before + 1 ELSE before ]_vars

\* A request that has passed pre_request and has just had its last retry
\* granted.
C30_Witness ==
    /\ uuids >= 1
    /\ call.op = "handle_error"
    /\ _is_retryable_error(call.response)
    /\ call.count = retry_config.max_retries - 1
    /\ RetryCountOf(request) = retry_config.max_retries
    /\ Has(request.context, "request_id")

-----------------------------------------------------------------------------
(* C31 *)

\* The request rate-limit counter, the request metric and the error metric of
\* the backend, as the cache c holds them.
RequestCounter(c) == CacheGet(c, now, RateKey(server.id, "request"), 0)

RequestMetric(c) == CacheGet(c, now, MetricsKey("request_count", server.id), 0)

ErrorMetric(c) == CacheGet(c, now, MetricsKey("errors", server.id), 0)

-----------------------------------------------------------------------------
(* C32 *)

\* request.context, a missing one read as the empty dict.
ContextOf(req) == IF Has(req, "context") THEN req.context ELSE EmptyDict

TrackingTags == {"request_id", "timestamp"}

\* C32: each successful pre_request call writes a fresh request id and the
\* start timestamp into the request context and leaves every other context
\* entry (retry_count, should_retry, retry_delay, caller hints) exactly as it
\* was.
C32_PreRequestTagsContext ==
    [][ (call'.op = "pre_request" /\ call'.raised = "none") =>
          LET old == ContextOf(request)
              new == ContextOf(request')
          IN  /\ DOMAIN new = DOMAIN old \cup TrackingTags
              /\ new["request_id"] = uuids'
              /\ uuids' > uuids
              /\ "request_id" \in DOMAIN old => new["request_id"] # old["request_id"]
              /\ new["timestamp"] = now
              /\ \A k \in DOMAIN old \ TrackingTags : new[k] = old[k] ]_vars

\* A request whose retry has been scheduled is resubmitted: it carries a new
\* request id, and its retry state.
C32_Witness ==
    /\ call.op = "pre_request"
    /\ call.raised = "none"
    /\ "request_id" \in DOMAIN ContextOf(call.request)
    /\ request.context["request_id"] # call.request.context["request_id"]
    /\ RetryCountOf(request) >= 1
    /\ MarkedForRetry(request)
    /\ "retry_delay" \in DOMAIN request.context

-----------------------------------------------------------------------------
(* C33: the hooks on a backend of every status, active or not *)

StatusInit ==
    /\ now = 1
    /\ cache = <<>>
    /\ \E st \in Statuses, active \in BOOLEAN :
          server = [NewServer("filesystem") EXCEPT !.status = st,
                                                  !.is_active = active]
    /\ db = RowOf(server)
    /\ request = [method |-> "list_tools", params |-> EmptyDict]
    /\ response = NoResponse
    /\ pc = "idle"
    /\ uuids = 0
    /\ resubmits = 0
    /\ call = NoCall
    /\ rlOp = "request"
    /\ rlLog = <<>>
    /\ errLog = <<>>
    /\ tally = NoTally
    /\ InitRegistry
    /\ modules = <<>>
    /\ provider = [_connected |-> FALSE, token |-> TRUE]
    /\ wire = NoWire
    /\ input = <<>>
    /\ procs = <<>>

\* The connect and request flows' hooks, and the error handler, on one
\* backend and one request within one second.
StatusNext == PreConnect \/ PostConnect \/ PreRequestAgain \/ HandleError

StatusSpec == StatusInit /\ [][StatusNext]_vars

\* C33: the pipeline never refuses a call because of the backend's status:
\* pre_request raises exactly for a request rate-limit denial or a security
\* issue, pre_connect raises exactly for is_active = false or a connect
\* rate-limit denial, whatever the status is; and no step changes is_active.
C33_StatusNeverRefuses ==
    [][ /\ call'.op = "pre_request" =>
            (call'.raised # "none"
               <=> RequestDenied \/ check_request(call'.request) # {})
        /\ call'.op = "pre_connect" =>
            (call'.raised # "none" <=> ~server.is_active \/ ConnectDenied)
        /\ server'.is_active = server.is_active ]_vars

\* A request is accepted for a backend the circuit breaker has tripped.
C33_Witness ==
    /\ call.op = "pre_request"
    /\ call.raised = "none"
    /\ server.status = Status.ERROR
    /\ "circuit_breaker_triggered" \in DOMAIN server.metadata

-----------------------------------------------------------------------------
(* C34 *)

\* C34: the stored rate-limit counter of every operation class of the backend
\* is between 0 and the configured maximum in every reachable state, for
\* concurrent check_limit callers and every interleaving of their cache reads
\* and writes.
C34_CounterWithinBounds ==
    \A op \in DOMAIN limits :
        LET key == RateKey(server.id, op)
        IN  /\ key \in DOMAIN cache => cache[key].val \in 0..limits[op].requests
            /\ CacheGet(cache, now, key, 0) \in 0..limits[op].requests

\* More connects than the maximum were allowed in one second, a write having
\* lost an increment, and the counter stands at the maximum.
C34_Witness ==
    /\ rlOp = "connect"
    /\ AllowedThisSecond > ConnectRateLimit
    /\ RateKey(server.id, "connect") \in DOMAIN cache
    /\ cache[RateKey(server.id, "connect")].val = ConnectRateLimit
    /\ \E w \in Workers : procs[w].lostAt = now

-----------------------------------------------------------------------------
(* C35 *)

\* The number of calls of the log made in the interval of the given length
\* that starts at time t0.
CallsInInterval(log, t0, length) ==
    Cardinality({i \in 1..Len(log) : t0 <= log[i] /\ log[i] < t0 + length})

\* C35: with sequential callers, check_limit never returns allowed more than
\* the configured maximum number of times inside any time interval of one
\* window length, for every spacing of the calls in time.
C35_NoBurstInAnyWindow ==
    \A t0 \in 1..MaxTime :
        CallsInInterval(rlLog, t0, limits[rlOp].window) <= limits[rlOp].requests

\* The maximum of connects was allowed within one window, and the next connect
\* is allowed one full window after the last of them, the expiry having been
\* re-armed by it.
C35_Witness ==
    /\ rlOp = "connect"
    /\ call.op = "check_limit" /\ call.operation = "connect" /\ call.ret
    /\ Len(call.prior) = ConnectRateLimit
    /\ call.prior[ConnectRateLimit] - call.prior[1] = ConnectRateWindow - 1
    /\ call.t = call.prior[ConnectRateLimit] + ConnectRateWindow
    /\ CallsInInterval(rlLog, call.prior[1], ConnectRateWindow) = ConnectRateLimit

-----------------------------------------------------------------------------
(* C36 *)

\* The number of errors of the log recorded at most one error window before
\* time t.
ErrorsInPrecedingWindow(log, t) ==
    Cardinality({i \in 1..Len(log) : t - log[i] <= ErrorWindow})

\* C36: whenever the circuit breaker trips a backend, at least threshold
\* non-retried errors for that backend were recorded within the preceding
\* error window; errors spread over a longer time than one window never trip
\* it.
C36_TripNeedsErrorsInWindow ==
    [][ (/\ call'.op = "handle_error"
         /\ call'.recorded
         /\ ThresholdReached(ErrorCounter(cache', now), ErrorThreshold)
         /\ Tripped(server', db', now)) =>
          ErrorsInPrecedingWindow(errLog', now) >= ErrorThreshold ]_vars

-----------------------------------------------------------------------------
(* C37: errors and connects on one backend *)

ReconnectInit ==
    /\ StatusInit
    /\ server.status = Status.ACTIVE
    /\ server.is_active

\* The error handler and post_connect called on one backend, active and in
\* status ACTIVE at first, within one second, which is within one error
\* window.
ReconnectSpec == ReconnectInit /\ [][HandleError \/ DirectPostConnect]_vars

\* The step just taken was a successful post_connect on a backend the
\* circuit breaker had tripped before.
JustReconnected ==
    /\ call.op = "post_connect"
    /\ call.success
    /\ server.status = Status.ACTIVE
    /\ "circuit_breaker_triggered" \in DOMAIN server.metadata

\* C37: after a tripped backend has been connected again successfully, the
\* circuit breaker trips it again only after threshold further non-retried
\* errors have been recorded: a single error after the reconnection does not
\* trip it.
C37_OneErrorAfterReconnectDoesNotTrip ==
    [][ (JustReconnected /\ call'.op = "handle_error" /\ call'.recorded) =>
          server'.status = Status.ACTIVE ]_vars

-----------------------------------------------------------------------------
(* C38 *)

\* C38: in every sequence of connect and disconnect calls on a provider,
\* is_connected() is true exactly when the most recent connect call succeeded
\* and no disconnect followed it: a connect that succeeds leaves it true, a
\* connect that fails leaves it false, also when an earlier connect had
\* succeeded, a disconnect leaves it false, and no other call changes it.
C38_IsConnectedTracksLastConnect ==
    [][ /\ call'.op = "connect" =>
            (is_connected(provider') <=> call'.raised = "none")
        /\ call'.op = "disconnect" => ~is_connected(provider')
        /\ call'.op \notin {"connect", "disconnect"} =>
            is_connected(provider') = is_connected(provider) ]_vars

-----------------------------------------------------------------------------
(* C39: concurrent callers of record_request.  The cache.get and cache.set   *)
(* of the request count (lines 210-211) and of the error count (lines        *)
(* 233-234) are separate steps of each worker; the method count of lines     *)
(* 214-216, which no other step reads, is written with the request count.    *)
(* The workers pass duration=None.                                           *)

ConcurrentMetricsInit ==
    /\ InitHooks
    /\ server = NewServer("claude")
    /\ db = RowOf(server)
    /\ rlOp = "request"
    /\ InitRegistry
    /\ modules = <<>>
    /\ provider = [_connected |-> FALSE, token |-> TRUE]
    /\ wire = NoWire
    /\ input = <<>>
    /\ procs = [w \in Workers |-> [pc |-> "idle"]]

\* Worker w reads a counter: the request count on entering
\* record_request(server, request, response) with a response of its own, the
\* error count when that response has failed.
ReadMetric(w) ==
    /\ \/ /\ procs[w].pc = "idle"
          /\ tally.requests < MaxRecords
          /\ \E ok \in BOOLEAN :
                procs' = [procs EXCEPT ![w] =
                    [pc |-> "set_count", ok |-> ok,
                     current_count |->
                        CacheGet(cache, now, MetricsKey("request_count", server.id), 0)]]
          /\ tally' = [tally EXCEPT !.requests = @ + 1]
       \/ /\ procs[w].pc = "get_errors"
          /\ procs' = [procs EXCEPT ![w] =
                    [pc |-> "set_errors", ok |-> FALSE,
                     error_count |->
                        CacheGet(cache, now, MetricsKey("errors", server.id), 0)]]
          /\ tally' = tally
    /\ call' = [op |-> "cache.get", worker |-> w]
    /\ UNCHANGED <<now, cache, server, db, request, response, flow, rlOp, rlLog,
                   errLog, registry, loads, modules, provider, wire, input>>

\* Worker w writes the counter it read, plus one: the request count, and
\* with it the method count, or the error count, after which record_request
\* returns.
WriteMetric(w) ==
    /\ \/ /\ procs[w].pc = "set_count"
          /\ LET c1 == CacheSet(cache, now, MetricsKey("request_count", server.id),
                                procs[w].current_count + 1, metrics_window)
                 method_key == MethodKey(server.id, "test")
             IN  cache' = CacheSet(c1, now, method_key,
                                   CacheGet(c1, now, method_key, 0) + 1,
                                   metrics_window)
          /\ procs' = [procs EXCEPT ![w] =
                          IF procs[w].ok THEN [pc |-> "idle"]
                          ELSE [pc |-> "get_errors"]]
          /\ tally' = tally
       \/ /\ procs[w].pc = "set_errors"
          /\ cache' = CacheSet(cache, now, MetricsKey("errors", server.id),
                               procs[w].error_count + 1, metrics_window)
          /\ procs' = [procs EXCEPT ![w] = [pc |-> "idle"]]
          /\ tally' = [tally EXCEPT !.errors = @ + 1]
    /\ call' = [op |-> "cache.set", worker |-> w]
    /\ UNCHANGED <<now, server, db, request, response, flow, rlOp, rlLog, errLog,
                   registry, loads, modules, provider, wire, input>>

ConcurrentMetricsSpec ==
    ConcurrentMetricsInit
        /\ [][TickWorkers \/ GetMetrics
               \/ \E w \in Workers : ReadMetric(w) \/ WriteMetric(w)]_vars

\* C39: in every snapshot returned by get_metrics, error_count is at most
\* request_count, for any sequence and any interleaving of record_request
\* calls and any expiry of the counters.
C39_ErrorsAtMostRequests ==
    call.op = "get_metrics" => call.ret.error_count <= call.ret.request_count

-----------------------------------------------------------------------------
(* C40 *)

\* C40: a pre_connect call on an administratively inactive backend is refused
\* for being inactive and leaves the connect rate-limit counter, and the
\* rest of the cache, unchanged.
C40_InactiveConnectUsesNoAllowance ==
    [][ (call'.op = "pre_connect" /\ ~server.is_active) =>
          /\ call'.raised = "ValueError: not active"
          /\ cache' = cache
          /\ CacheGet(cache', now, RateKey(server.id, "connect"), 0)
                = CacheGet(cache, now, RateKey(server.id, "connect"), 0) ]_vars

\* A connect to an inactive backend has been refused; the backend has taken
\* a request, and no connect counter has been stored for it.
C40_Witness ==
    /\ ~server.is_active
    /\ call.op = "pre_connect"
    /\ call.raised = "ValueError: not active"
    /\ RequestCounter(cache) >= 1
    /\ RateKey(server.id, "connect") \notin DOMAIN cache

====
